---------------------------- MODULE Spec2Model ----------------------------
(***************************************************************************)
(* A model of the screening-and-acquisition pipeline of the crawler        *)
(* (src/crawler_app): the permission cache, the resource probe, the        *)
(* code-archive resolution, the per-journal screening loop and the         *)
(* acquisition loop with its on-disk state.                                *)
(*                                                                         *)
(* URLs are tuples <<origin, path part, ...>>.  The network and the disk   *)
(* are the environment: what a request answers is drawn from small sets.   *)
(* `trace` holds what the last step did, in order.                         *)
(***************************************************************************)
EXTENDS Integers, Sequences, FiniteSets, TLC

VARIABLES
    pc,             \* position of the operation under study
    robots_cache,   \* RobotsCache.cache: the origins whose policy is loaded
    env,            \* the network as the function-level specifications fix it
    trace,          \* what the last step did, in order: policy queries,
                    \* requests, cache and disk accesses
    res_url,        \* screen_resource: the URL probed
    res_ret,        \* screen_resource: what the call returned
    repo_urls,      \* find_working_zip_url: the repos of the article
    zip_ret,        \* find_working_zip_url: what the call returned
    zip_record,     \* the code fields of the candidate and of its record
    limit,          \* download_candidates: the number of records asked for
    dry_run,        \* download_candidates: the --dry-run flag
    cand_idx,       \* download_candidates: candidates taken from the list
    result,         \* download_candidates: the candidate being processed
    article_dir_exists, \* local of that name
    pdf_status,     \* local of that name, in screen_journal and download_candidates
    review_status,  \* local of that name, in both as well
    code_status,    \* local of that name
    peer_review_path,   \* local of that name
    code_zip_path,  \* local of that name
    manual_required,    \* local of that name
    supp_paths,     \* local of that name
    data_paths,     \* local of that name
    res_idx,        \* position in article.esm_resources
    disk,           \* the directory of the article being processed
    records,        \* the article URLs of the records produced, in order
    metadata,       \* the record written for the article being processed
    before,         \* the directory and the record count when the article began
    remaining,      \* screen_journal: the number of candidates asked for
    max_pages,      \* screen_journal: the page limit
    pages,          \* local of that name: listing pages requested
    page_len,       \* len(entries) of the listing page being scanned
    entry_idx,      \* position in entries
    entry,          \* the entry the loop reached last: its URL and year
    stop_due_to_year,   \* local of that name
    article,        \* local of that name: the extracted article
    candidates,     \* local of that name
    url_cache,      \* the negative cache: article URL -> reason
    existing_slugs, \* the slugs of the articles already archived
    n_per_journal,  \* crawl_journal: the number of records asked for
    store,          \* the category directory: slug -> article directory
    store_at_start, \* the category directory when the run began
    url_cache_file, \* the negative cache as persisted for the journal
    collected,      \* crawl_journal: local of that name
    ft_delay,       \* ThrottledFetcher.delay, in ticks of the clock
    ft_retries,     \* ThrottledFetcher.retries
    ft_call,        \* the fetcher call under way: its kind, URL and extension
    attempt,        \* _request: local of that name
    elapsed,        \* time.time() - _last_request, counted up to delay
    since_sent,     \* time since the last outbound request was sent, likewise
    gap,            \* least time between two consecutive requests of the last step
    gets,           \* GET attempts made by the call under way
    slept,          \* the sleeps of the last step: why and how long
    ft_response,    \* the headers of the last response
    ft_disk,        \* the file at dest_path: absent, partial or complete
    ft_ret,         \* how the last call ended
    robots_txt,     \* origin -> what reading its robots.txt comes to
    esm_page,       \* extract_esm_resources: the anchors of the page, in order
    esm_out,        \* extract_esm_resources: what the call returned
    gh_url,         \* normalize_github_repo: the URL given
    gh_repo,        \* normalize_github_repo: what the call returned
    gh_again,       \* normalize_github_repo: what it returned for gh_repo
    merged_records, \* main: the values of merged_records, in order
    summary_files,  \* the files under output_dir when the summary is written
    summary_csv     \* the rows of summary.csv

resVars  == <<res_url, res_ret>>
zipVars  == <<repo_urls, zip_ret, zip_record>>
dlLocals == <<article_dir_exists, pdf_status, review_status, code_status,
              peer_review_path, code_zip_path, manual_required, supp_paths,
              data_paths, res_idx>>
dlVars   == <<limit, dry_run, cand_idx, result, dlLocals, disk, records,
              metadata, before>>
scVars   == <<remaining, max_pages, pages, page_len, entry_idx, entry,
              stop_due_to_year, article, candidates, url_cache,
              existing_slugs>>
crVars   == <<n_per_journal, store, store_at_start, url_cache_file, collected>>
ftVars   == <<ft_delay, ft_retries, ft_call, attempt, elapsed, since_sent,
              gap, gets, slept, ft_response, ft_disk, ft_ret>>
rbVars   == <<robots_txt>>
esVars   == <<esm_page, esm_out>>
ghVars   == <<gh_url, gh_repo, gh_again>>
smVars   == <<merged_records, summary_files, summary_csv>>
fnVars   == <<esVars, ghVars, smVars>>
vars     == <<pc, robots_cache, env, trace, resVars, zipVars, dlVars, scVars,
              crVars, ftVars, rbVars, fnVars>>

-----------------------------------------------------------------------------
(* Values *)

\* Python's None where a URL (or a repo) is expected, and an empty string.
NoUrl == <<>>

\* No value yet: a call that has not returned, a record not yet written.
NoRet == [status |-> "none"]

\* Python's None where an HTTP status is expected.
NoStatus == -1

Origin(url) == url[1]

RobotsTxt(base) == <<base, "robots.txt">>

\* One event of a trace: an operation, the URL or path it is about, its result.
Event(op, url, r) == [op |-> op, url |-> url, r |-> r]

\* An outbound request and how it ended.
GET(url, r)  == Event("GET", url, r)
HEAD(url, r) == Event("HEAD", url, r)

\* The network as an operation sees it:
\*   robots_txt_ok : origin -> its robots.txt can be read
\*   can_fetch     : URL -> the origin's policy allows it
\*   head_reply    : URL -> what a HEAD request answers
Network(robots_txt_ok, can_fetch, head_reply) ==
    [robots_txt_ok |-> robots_txt_ok, can_fetch |-> can_fetch,
     head_reply |-> head_reply]

-----------------------------------------------------------------------------
(* RobotsCache.allowed *)

\* The read of an origin's robots.txt, as a request.
robots_read(base, w) ==
    GET(RobotsTxt(base), IF w.robots_txt_ok[base] THEN "ok" ELSE "error")

\* allowed(url) with the cache `cache`: the answer, the cache afterwards and
\* what it did.  An origin not yet cached has its robots.txt read; a failing
\* read answers False and caches nothing.
allowed(cache, url, w) ==
    LET base == Origin(url) IN
    IF base \notin cache
    THEN IF ~w.robots_txt_ok[base]
         THEN [answer |-> FALSE, cache |-> cache,
               trace |-> <<robots_read(base, w), Event("policy", url, FALSE)>>]
         ELSE [answer |-> w.can_fetch[url], cache |-> cache \cup {base},
               trace |-> <<robots_read(base, w),
                           Event("policy", url, w.can_fetch[url])>>]
    ELSE [answer |-> w.can_fetch[url], cache |-> cache,
          trace |-> <<Event("policy", url, w.can_fetch[url])>>]

-----------------------------------------------------------------------------
(* ThrottledFetcher.head_info and screen_resource *)

\* A HEAD exchange: urlopen raises (ok = FALSE) or gives a response.
HeadFails == [ok |-> FALSE, status |-> NoStatus, content_type |-> ""]

HeadGives(status, content_type) ==
    [ok |-> TRUE, status |-> status, content_type |-> content_type]

\* A probe that requests the body.
head_info_by_get(url, w) ==
    LET reply == w.head_reply[url] IN
    IF reply.ok
    THEN [status |-> reply.status, content_type |-> reply.content_type,
          trace |-> <<GET(url, "ok")>>]
    ELSE [status |-> NoStatus, content_type |-> "",
          trace |-> <<GET(url, "error")>>]

\* head_info never raises: an exception becomes (None, "", None).
head_info(url, w) ==
    LET reply == w.head_reply[url] IN
    IF reply.ok
    THEN [status |-> reply.status, content_type |-> reply.content_type,
          trace |-> <<HEAD(url, "ok")>>]
    ELSE [status |-> NoStatus, content_type |-> "",
          trace |-> <<HEAD(url, "error")>>]

\* str.lower() on the content types of the model.
lower(content_type) ==
    CASE content_type = "Text/HTML; charset=UTF-8" -> "text/html; charset=utf-8"
      [] OTHER -> content_type

\* "text/html" in s, on the lowered content types of the model.
contains_text_html(s) == s \in {"text/html", "text/html; charset=utf-8"}

is_html_content(content_type) == contains_text_html(lower(content_type))

status_unavailable(status) == status = NoStatus \/ status >= 400

\* What screen_resource returns, with the cache afterwards and what it did.
probe_return(status, reason, cache, tr) ==
    [status |-> status, reason |-> reason, cache |-> cache, trace |-> tr]

\* screen_resource issuing its HEAD request before it looks at the policy.
screen_resource_head_first(cache, url, w) ==
    LET a == allowed(cache, url, w)
        h == head_info(url, w)
    IN  IF ~a.answer
        THEN probe_return("manual_required", "robots_disallowed", a.cache,
                          h.trace \o a.trace)
        ELSE IF status_unavailable(h.status)
        THEN probe_return("unavailable", "status", a.cache, h.trace \o a.trace)
        ELSE IF is_html_content(h.content_type)
        THEN probe_return("unavailable", "content_type", a.cache, h.trace \o a.trace)
        ELSE probe_return("downloadable", "", a.cache, h.trace \o a.trace)

\* screen_resource probing without asking the policy.
screen_resource_unasked(cache, url, w) ==
    LET h == head_info(url, w)
    IN  IF status_unavailable(h.status)
        THEN probe_return("unavailable", "status", cache, h.trace)
        ELSE IF is_html_content(h.content_type)
        THEN probe_return("unavailable", "content_type", cache, h.trace)
        ELSE probe_return("downloadable", "", cache, h.trace)

\* screen_resource(fetcher, robots, url): the status and the reason.
screen_resource(cache, url, w) ==
    LET a == allowed(cache, url, w)
        h == head_info(url, w)
    IN  IF ~a.answer
        THEN probe_return("manual_required", "robots_disallowed", a.cache, a.trace)
        ELSE IF status_unavailable(h.status)
        THEN probe_return("unavailable", "status", a.cache, a.trace \o h.trace)
        ELSE IF is_html_content(h.content_type)
        THEN probe_return("unavailable", "content_type", a.cache, a.trace \o h.trace)
        ELSE probe_return("downloadable", "", a.cache, a.trace \o h.trace)

-----------------------------------------------------------------------------
(* github_zip_urls and find_working_zip_url *)

\* A normalized repo URL is <<"github.com", owner, repo>>; a link such as
\* github.com/o3/.git normalizes to an empty repo name, <<"github.com", "o3">>.
Repo1      == <<"github.com", "o1", "r1">>
Repo2      == <<"github.com", "o2", "r2.">>
RepoNoName == <<"github.com", "o3">>
Repos      == {Repo1, Repo2, RepoNoName}

CodeloadOrigin == "codeload.github.com"

ZipRefs == <<"zip/HEAD", "zip/refs/heads/main", "zip/refs/heads/master">>

\* github_zip_urls with main tried before HEAD.
github_zip_urls_main_first(repo_url) ==
    LET parts == Tail(repo_url) IN
    IF Len(parts) < 2
    THEN <<>>
    ELSE <<  <<CodeloadOrigin, parts[1], parts[2], ZipRefs[2]>>,
             <<CodeloadOrigin, parts[1], parts[2], ZipRefs[1]>>,
             <<CodeloadOrigin, parts[1], parts[2], ZipRefs[3]>>  >>

\* github_zip_urls(repo_url): the three archive URLs of owner/repo, or none
\* when the path has fewer than two parts.
github_zip_urls(repo_url) ==
    LET parts == Tail(repo_url) IN
    IF Len(parts) < 2
    THEN <<>>
    ELSE [k \in 1..3 |-> <<CodeloadOrigin, parts[1], parts[2], ZipRefs[k]>>]

\* What find_working_zip_url returns, with the cache afterwards, the requests
\* issued and the probes made (URL and status), in order.
zip_return(zip_url, repo_url, status, cache, log) ==
    [zip_url |-> zip_url, repo_url |-> repo_url, status |-> status,
     cache |-> cache, trace |-> log.trace, probes |-> log.probes]

\* The test after a repo's archive URLs, never taken.
manual_stops_after_repo_never(saw_manual) == FALSE

\* `if saw_manual:` after the archive URLs of one repo.
manual_stops_after_repo(saw_manual) == saw_manual

\* The last-resort return naming no repo.
zip_last_resort_no_repo(repos, cache, log) ==
    zip_return(NoUrl, NoUrl, "manual_required", cache, log)

\* The last-resort return attributing the last repo of the list.
zip_last_resort_last_repo(repos, cache, log) ==
    zip_return(NoUrl, IF repos # <<>> THEN repos[Len(repos)] ELSE NoUrl,
               "manual_required", cache, log)

\* The return after all repos: (None, repo_urls[0] if repo_urls else None,
\* "manual_required").
zip_last_resort(repos, cache, log) ==
    zip_return(NoUrl, IF repos # <<>> THEN repos[1] ELSE NoUrl,
               "manual_required", cache, log)

\* The two loops of find_working_zip_url, at repo i and archive URL j.
RECURSIVE zip_loop(_, _, _, _, _, _, _)
zip_loop(cache, repos, w, i, j, saw_manual, log) ==
    IF i > Len(repos)
    THEN zip_last_resort(repos, cache, log)
    ELSE LET repo_url == repos[i]
             zips     == github_zip_urls(repo_url)
         IN  IF j > Len(zips)
             THEN IF manual_stops_after_repo(saw_manual)
                  THEN zip_return(NoUrl, repo_url, "manual_required", cache, log)
                  ELSE zip_loop(cache, repos, w, i + 1, 1, saw_manual, log)
             ELSE LET r    == screen_resource(cache, zips[j], w)
                      log2 == [trace  |-> log.trace \o r.trace,
                               probes |-> Append(log.probes,
                                                 [url |-> zips[j], status |-> r.status])]
                  IN  IF r.status = "downloadable"
                      THEN zip_return(zips[j], repo_url, "downloadable", r.cache, log2)
                      ELSE zip_loop(r.cache, repos, w, i, j + 1,
                                    saw_manual \/ r.status = "manual_required", log2)

\* find_working_zip_url(fetcher, robots, repo_urls): (zip_url, repo_url,
\* status), with the cache afterwards, what it did and the probes it made.
find_working_zip_url(cache, repos, w) ==
    zip_loop(cache, repos, w, 1, 1, FALSE, [trace |-> <<>>, probes |-> <<>>])

-----------------------------------------------------------------------------
(* File names, paths and the directory of one article *)

\* A file name is its base, as the parts joined by "_", and its extension:
\* "Peer_Review_File_2.pdf" is FileName(<<"Peer_Review_File", 2>>, ".pdf").
FileName(base, ext) == [base |-> base, ext |-> ext]

\* A path below the article directory.
Path(dir, name) == [dir |-> dir, name |-> name]

\* The empty string where a path is expected.
NoPath == Path("", FileName(<<>>, ""))

PdfPath      == Path("pdf_papers", FileName(<<"paper">>, ".pdf"))
MetadataPath == Path("", FileName(<<"metadata">>, ".json"))

\* article_paths["data"] if resource.category == "data" else article_paths["supp"]
target_dir(category) ==
    IF category = "data" THEN "data" ELSE "supplementary_materials"

\* The article directory: whether it exists, its files, and those of its
\* files that a failed download left incomplete.
Dir(exists, files, partial) ==
    [dir |-> exists, files |-> files, partial |-> partial]

NoDir == Dir(FALSE, {}, {})

\* ensure_article_dirs: the five directories exist afterwards.
ensure_article_dirs(d) == [d EXCEPT !.dir = TRUE]

\* cleanup_article_dir: shutil.rmtree of the article directory.
cleanup_article_dir(d) == NoDir

\* safe_filename on the names of the model: runs of other characters become
\* "_", and leading and trailing ".", "_", "-" are stripped.
safe_filename(value) ==
    IF value = "r2." THEN "r2"
    ELSE IF value = "Source Data" THEN "Source_Data"
    ELSE value

\* repo_zip_name(repo_url): the last path segment, made safe, plus ".zip".
repo_zip_name(repo_url) ==
    FileName(<<safe_filename(repo_url[Len(repo_url)])>>, ".zip")

-----------------------------------------------------------------------------
(* extract_esm_resources: the supplementary resources of an article page *)

SpringerOrigin == "static-content.springer.com"
NatureOrigin   == "www.nature.com"

\* An anchor of the article page: its URL, the extension of the URL's path
\* and its link text.
Anchor(file, ext, text) ==
    [url |-> <<SpringerOrigin, "esm", file>>, ext |-> ext, text |-> text]

AnchorPeerReview  == Anchor("MOESM2", ".pdf",  "Peer Review File")
AnchorNamedLikeIt == Anchor("MOESM1", ".pdf",  "Peer_Review_File")
AnchorSourceData  == Anchor("MOESM3", ".xlsx", "Source Data")
Anchors == {AnchorPeerReview, AnchorNamedLikeIt, AnchorSourceData}

\* infer_category_from_text, on the link texts of the model.
infer_category_from_text(text) ==
    IF text \in {"Peer Review File"}
    THEN "peer_review"
    ELSE IF text \in {"Source Data"}
    THEN "data"
    ELSE "supplementary"

\* A name as the model writes it: its text and the counters "_2", "_3" it
\* ends in, so that "Peer_Review_File_2" is one name however it came about.
name_base(value) ==
    IF value = "Peer_Review_File_2" THEN <<"Peer_Review_File", 2>>
    ELSE IF value = "Peer_Review_File_3" THEN <<"Peer_Review_File", 3>>
    ELSE <<value>>

\* human_name_to_filename: the link text with "_" for spaces, made safe,
\* followed by the extension of the URL.
human_name_to_filename(text, ext) == FileName(name_base(safe_filename(text)), ext)

PeerReviewFileName == FileName(<<"Peer_Review_File">>, ".pdf")

ESMResource(url, link_text, filename, category) ==
    [url |-> url, link_text |-> link_text, filename |-> filename,
     category |-> category]

\* The first loop: one resource per anchor, an URL already seen skipped.
RECURSIVE esm_collect(_, _)
esm_collect(anchors, seen_urls) ==
    IF anchors = <<>> THEN <<>>
    ELSE LET a        == Head(anchors)
             category == infer_category_from_text(a.text)
             filename == IF category = "peer_review"
                         THEN PeerReviewFileName
                         ELSE human_name_to_filename(a.text, a.ext)
         IN  IF a.url \in seen_urls
             THEN esm_collect(Tail(anchors), seen_urls)
             ELSE <<ESMResource(a.url, a.text, filename, category)>>
                  \o esm_collect(Tail(anchors), seen_urls \cup {a.url})

\* The first counter, whether or not its name is used.
free_counter_first(filename, counter, used_names) == counter

\* The smallest counter from `counter` on whose name is not used.
RECURSIVE free_counter(_, _, _)
free_counter(filename, counter, used_names) ==
    IF FileName(Append(filename.base, counter), filename.ext) \in used_names
    THEN free_counter(filename, counter + 1, used_names)
    ELSE counter

\* The second loop: a name already used gets "_2", "_3", ...
RECURSIVE esm_rename(_, _)
esm_rename(resources, used_names) ==
    IF resources = <<>> THEN <<>>
    ELSE LET r        == Head(resources)
             filename == IF r.filename \in used_names
                         THEN FileName(Append(r.filename.base,
                                              free_counter(r.filename, 2, used_names)),
                                       r.filename.ext)
                         ELSE r.filename
         IN  <<[r EXCEPT !.filename = filename]>>
             \o esm_rename(Tail(resources), used_names \cup {filename})

extract_esm_resources(anchors) == esm_rename(esm_collect(anchors, {}), {})

-----------------------------------------------------------------------------
(* Articles, screening results and metadata records *)

\* The n-th article and its PDF.
ArticleSlugs == <<"s41586-001", "s41586-002", "s41586-003", "s41586-004">>
ArticleUrl(n) == <<NatureOrigin, "articles", ArticleSlugs[n]>>
PdfUrlOf(article_url) == Append(article_url, "pdf")
ArticlePdfUrl(n) == PdfUrlOf(ArticleUrl(n))

\* safe_filename of the last path segment of the article URL.
article_slug(article_url) == safe_filename(article_url[Len(article_url)])

\* ArticleData, with the fields the pipeline branches on.
ArticleData(url, github_repos, pdf_url, esm_resources) ==
    [url |-> url, github_repos |-> github_repos, pdf_url |-> pdf_url,
     esm_resources |-> esm_resources]

\* next((res for res in article.esm_resources if res.category == "peer_review"), None)
RECURSIVE first_peer_review(_)
first_peer_review(esm_resources) ==
    IF esm_resources = <<>> THEN NoRet
    ELSE IF Head(esm_resources).category = "peer_review"
         THEN Head(esm_resources)
         ELSE first_peer_review(Tail(esm_resources))

\* A ScreeningResult whose code_repo is taken from the archive URL.
ScreeningResult_zip_as_repo(article_data, code, peer_review_resource, pdf, review) ==
    [article |-> article_data,
     code_zip_url |-> code.zip_url,
     code_repo |-> code.zip_url,
     peer_review_resource |-> peer_review_resource,
     pdf_status |-> pdf,
     peer_review_status |-> review,
     code_status |-> code.status]

\* The ScreeningResult that screen_journal appends for an article; `code` is
\* what find_working_zip_url returned.
ScreeningResult(article_data, code, peer_review_resource, pdf, review) ==
    [article |-> article_data,
     code_zip_url |-> code.zip_url,
     code_repo |-> code.repo_url,
     peer_review_resource |-> peer_review_resource,
     pdf_status |-> pdf,
     peer_review_status |-> review,
     code_status |-> code.status]

\* os.path.join(<directory of the kind>, os.path.basename(path))
relative_to_article(dir, path) == Path(dir, path.name)

\* The list of the kinds left for manual download, kept without "pdf".
sorted_set_no_pdf(list) == {list[k] : k \in DOMAIN list} \ {"pdf"}

\* sorted(set(manual_required)): one entry per kind.
sorted_set(list) == {list[k] : k \in DOMAIN list}

build_metadata_record(article_data, used_repo, pdf, review, code, manual, pdf_path, zip_path, supp, data, review_path, peer_review_name, dry) ==
    [url |-> article_data.url,
     github_repos |-> article_data.github_repos,
     used_github_repo |-> used_repo,
     pdf_url |-> article_data.pdf_url,
     status |-> [pdf |-> pdf, peer_review |-> review, code |-> code],
     manual_required |-> sorted_set(manual),
     output |->
        [pdf |-> IF ~dry THEN PdfPath ELSE NoPath,
         code_zip |-> IF ~dry /\ zip_path # NoPath
                      THEN relative_to_article("code", zip_path) ELSE NoPath,
         supplementary_files |->
            IF ~dry
            THEN [k \in DOMAIN supp |->
                    relative_to_article("supplementary_materials", supp[k])]
            ELSE <<>>,
         data_files |->
            IF ~dry
            THEN [k \in DOMAIN data |-> relative_to_article("data", data[k])]
            ELSE <<>>,
         peer_review_file |->
            IF review_path # NoPath
            THEN relative_to_article("supplementary_materials", review_path)
            ELSE Path("supplementary_materials", peer_review_name)]]

-----------------------------------------------------------------------------
(* Bounds and the sets the inputs are drawn from *)

\* The longest list of repos extracted from one article.
MaxRepos == 2

\* The sequences over S of length at most n that hold no element twice.
SeqsNoDup(S, n) ==
    {q \in UNION {[1..k -> S] : k \in 0..n} :
        \A a, b \in DOMAIN q : a # b => q[a] # q[b]}

\* extract_github_links deduplicates: the lists hold distinct repos.
RepoLists == SeqsNoDup(Repos, MaxRepos)

Range(q) == {q[k] : k \in DOMAIN q}

ZipUrlsOf(repo_url) == Range(github_zip_urls(repo_url))

AllZipUrls == UNION {ZipUrlsOf(r) : r \in Repos}

NoEnv == Network(<<>>, <<>>, <<>>)

PdfUrl == <<"www.nature.com", "articles", "a1.pdf">>

\* What one HEAD may answer in the resource probe's own specification.
ProbeStatuses == {200, 399, 400, 404}
ProbeContentTypes ==
    {"", "application/pdf", "text/html", "Text/HTML; charset=UTF-8"}
ProbeReplies ==
    {HeadFails} \cup {HeadGives(s, c) : s \in ProbeStatuses, c \in ProbeContentTypes}

\* What one archive URL may be: denied by the policy, failing, an HTML page
\* or an archive.
ZipClasses == {"deny", "fail", "html", "zip"}

ZipReplyOf(class) ==
    IF class = "fail" THEN HeadFails
    ELSE IF class = "html" THEN HeadGives(200, "text/html")
    ELSE HeadGives(200, "application/zip")

-----------------------------------------------------------------------------
(* The parts of the state a specification leaves alone *)

ResIdle == res_url = NoUrl /\ res_ret = NoRet

ZipIdle == repo_urls = <<>> /\ zip_ret = NoRet /\ zip_record = NoRet

DlLocalsIdle ==
    /\ article_dir_exists = FALSE
    /\ pdf_status = ""
    /\ review_status = ""
    /\ code_status = ""
    /\ peer_review_path = NoPath
    /\ code_zip_path = NoPath
    /\ manual_required = <<>>
    /\ supp_paths = <<>>
    /\ data_paths = <<>>
    /\ res_idx = 0

ScIdle ==
    /\ remaining = 0
    /\ max_pages = 0
    /\ pages = 0
    /\ page_len = 0
    /\ entry_idx = 0
    /\ entry = NoRet
    /\ stop_due_to_year = FALSE
    /\ article = NoRet
    /\ candidates = <<>>
    /\ url_cache = <<>>
    /\ existing_slugs = {}

EsIdle == esm_page = <<>> /\ esm_out = NoRet

GhIdle == gh_url = NoRet /\ gh_repo = NoRet /\ gh_again = NoRet

SmIdle == merged_records = <<>> /\ summary_files = {} /\ summary_csv = NoRet

FnIdle == EsIdle /\ GhIdle /\ SmIdle

FtIdle ==
    /\ robots_txt = <<>>
    /\ ft_delay = 0
    /\ ft_retries = 0
    /\ ft_call = NoRet
    /\ attempt = 0
    /\ elapsed = 0
    /\ since_sent = 0
    /\ gap = 0
    /\ gets = 0
    /\ slept = <<>>
    /\ ft_response = NoRet
    /\ ft_disk = "absent"
    /\ ft_ret = NoRet

CrIdle ==
    /\ n_per_journal = 0
    /\ store = <<>>
    /\ store_at_start = <<>>
    /\ url_cache_file = <<>>
    /\ collected = <<>>

DlIdle ==
    /\ limit = 0
    /\ dry_run = FALSE
    /\ cand_idx = 0
    /\ result = NoRet
    /\ DlLocalsIdle
    /\ disk = NoDir
    /\ records = <<>>
    /\ metadata = NoRet
    /\ before = NoRet

-----------------------------------------------------------------------------
(* SpecResource: one call of screen_resource *)

InitResource ==
    /\ pc = "res_call"
    /\ FnIdle
    /\ FtIdle
    /\ CrIdle
    /\ res_url = PdfUrl
    /\ robots_cache \in {{}, {Origin(PdfUrl)}}
    /\ \E ok \in BOOLEAN, can \in BOOLEAN, reply \in ProbeReplies :
          env = Network([b \in {Origin(PdfUrl)} |-> ok],
                        [u \in {PdfUrl} |-> can],
                        [u \in {PdfUrl} |-> reply])
    /\ trace = <<>>
    /\ res_ret = NoRet
    /\ ZipIdle
    /\ DlIdle
    /\ ScIdle

ScreenResource ==
    /\ pc = "res_call"
    /\ LET r == screen_resource(robots_cache, res_url, env) IN
       /\ res_ret' = [status |-> r.status, reason |-> r.reason]
       /\ robots_cache' = r.cache
       /\ trace' = r.trace
    /\ pc' = "res_returned"
    /\ UNCHANGED <<env, res_url, zipVars, dlVars, scVars, crVars, ftVars, rbVars, fnVars>>

NextResource == ScreenResource

SpecResource == InitResource /\ [][NextResource]_vars

-----------------------------------------------------------------------------
(* SpecZip: one call of find_working_zip_url *)

InitZip ==
    /\ pc = "zip_call"
    /\ FnIdle
    /\ FtIdle
    /\ CrIdle
    /\ repo_urls \in RepoLists
    /\ robots_cache \in {{}, {CodeloadOrigin}}
    /\ \E ok \in BOOLEAN, class \in [AllZipUrls -> ZipClasses] :
          env = Network([b \in {CodeloadOrigin} |-> ok],
                        [u \in AllZipUrls |-> class[u] # "deny"],
                        [u \in AllZipUrls |-> ZipReplyOf(class[u])])
    /\ trace = <<>>
    /\ ResIdle
    /\ zip_ret = NoRet
    /\ zip_record = NoRet
    /\ DlIdle
    /\ ScIdle

FindWorkingZipUrl ==
    /\ pc = "zip_call"
    /\ LET r == find_working_zip_url(robots_cache, repo_urls, env) IN
       /\ zip_ret' = [zip_url |-> r.zip_url, repo_url |-> r.repo_url,
                      status |-> r.status, probes |-> r.probes]
       /\ robots_cache' = r.cache
       /\ trace' = r.trace
    /\ pc' = "zip_returned"
    /\ UNCHANGED <<env, resVars, ftVars, rbVars, fnVars, crVars, repo_urls, zip_record, dlVars, scVars>>

\* The article whose repos are resolved.
ZipArticle ==
    ArticleData(ArticleUrl(1), repo_urls, ArticlePdfUrl(1),
                extract_esm_resources(<<AnchorPeerReview>>))

\* screen_journal, lines 116-132: without a repo the article is skipped,
\* otherwise the candidate is appended with what the call returned.
AppendCandidate ==
    /\ pc = "zip_returned"
    /\ IF zip_ret.repo_url = NoUrl
       THEN /\ zip_record' = NoRet
            /\ pc' = "zip_skipped"
       ELSE /\ zip_record' =
                 [candidate |->
                    ScreeningResult(ZipArticle, zip_ret,
                        first_peer_review(ZipArticle.esm_resources),
                        "downloadable", "downloadable")]
            /\ pc' = "zip_kept"
    /\ trace' = <<>>
    /\ UNCHANGED <<robots_cache, env, resVars, ftVars, rbVars, fnVars, crVars, repo_urls, zip_ret, dlVars, scVars>>

\* download_candidates on that candidate with dry_run set (lines 34-58 and
\* 147-177): the record of the article.
DryRunRecord ==
    /\ pc = "zip_kept"
    /\ LET cand == zip_record.candidate IN
         zip_record' =
            [candidate |-> cand,
             record |-> build_metadata_record(
                 cand.article, cand.code_repo, cand.pdf_status,
                 cand.peer_review_status, cand.code_status, <<>>, PdfPath,
                 NoPath, <<>>, <<>>, NoPath,
                 cand.peer_review_resource.filename, TRUE)]
    /\ pc' = "zip_recorded"
    /\ trace' = <<>>
    /\ UNCHANGED <<robots_cache, env, resVars, ftVars, rbVars, fnVars, crVars, repo_urls, zip_ret, dlVars, scVars>>

NextZip == FindWorkingZipUrl \/ AppendCandidate \/ DryRunRecord

SpecZip == InitZip /\ [][NextZip]_vars

-----------------------------------------------------------------------------
(* SpecDownload: download_candidates over a list of screened candidates.   *)
(* The candidates are drawn one by one as the loop reaches them, each a    *)
(* different article with its own directory; what a request answers is     *)
(* drawn when it is made.                                                  *)

MaxCandidates == 2
MaxAnchors == 2

\* The resource lists of the article pages: at least one peer-review link,
\* or screening does not keep the article.
AnchorLists == SeqsNoDup(Anchors, MaxAnchors)
EsmLists ==
    {extract_esm_resources(anchors) : anchors \in
        {q \in AnchorLists : \E k \in DOMAIN q :
            infer_category_from_text(q[k].text) = "peer_review"}}

\* What find_working_zip_url can have returned for the repos of a candidate.
CodeResults(repos) ==
    {[zip_url |-> github_zip_urls(repos[1])[1], repo_url |-> repos[1],
      status |-> "downloadable"],
     [zip_url |-> NoUrl, repo_url |-> repos[1], status |-> "manual_required"]}

\* The statuses screening keeps a candidate with.
KeptStatuses == {"downloadable", "manual_required"}

\* The candidates screen_journal can append for article n with these repos.
CandidatesWith(n, repos) ==
    {ScreeningResult(ArticleData(ArticleUrl(n), repos, ArticlePdfUrl(n), esm),
                     code, first_peer_review(esm), pdf, review) :
        esm \in EsmLists, code \in CodeResults(repos), pdf \in KeptStatuses,
        review \in KeptStatuses}

Candidates(n) == CandidatesWith(n, <<Repo2>>)

\* Where a resource of the article is stored.
dest_path(resource) == Path(target_dir(resource.category), resource.filename)

\* The paths download_candidates looks at for a candidate.
DestPaths(cand) ==
    {PdfPath, Path("code", repo_zip_name(cand.code_repo))}
    \cup {dest_path(cand.article.esm_resources[k]) :
            k \in DOMAIN cand.article.esm_resources}

\* The directory of an article when its processing begins: absent, or left
\* by an earlier run with some of the files.
InitialDirs(cand) ==
    {NoDir} \cup {Dir(TRUE, files, {}) : files \in SUBSET DestPaths(cand)}

\* What a download does: the file is written, or the request raises,
\* leaving no file or an incomplete one.
DownloadOutcomes == {"ok", "error", "error_partial"}

\* A download whose failure takes the article directory with it.
download_file_rolls_back(d, path, outcome) ==
    IF outcome = "ok"
    THEN [d EXCEPT !.dir = TRUE, !.files = @ \cup {path}, !.partial = @ \ {path}]
    ELSE cleanup_article_dir(d)

\* fetcher.download_file(url, path) on directory d.
download_file(d, path, outcome) ==
    IF outcome = "ok"
    THEN [d EXCEPT !.dir = TRUE, !.files = @ \cup {path}, !.partial = @ \ {path}]
    ELSE IF outcome = "error_partial"
    THEN [d EXCEPT !.dir = TRUE, !.files = @ \cup {path}, !.partial = @ \cup {path}]
    ELSE [d EXCEPT !.dir = TRUE]

\* os.path.exists(path) that never finds the file.
os_path_exists_blind(d, path) == FALSE

\* os.path.exists(path): complete or not, the file is there.
os_path_exists(d, path) == path \in d.files

\* os.path.exists(path), as an entry of the trace.
Exists(d, path) == Event("exists", path, os_path_exists(d, path))

\* The article directory itself, as a path.
ArticleDirPath == Path(".", FileName(<<>>, ""))

\* The policy as one query sees it.
PolicyNetwork(url, ok, can) ==
    Network([b \in {Origin(url)} |-> ok], [u \in {url} |-> can], <<>>)

\* A rollback that leaves the directory, and one that always removes it.
rollback_never(existed, d) == d
rollback_unscoped(existed, d) == cleanup_article_dir(d)

\* "if not article_dir_exists: cleanup_article_dir(...)"
rollback(existed, d) == IF ~existed THEN cleanup_article_dir(d) ELSE d

InitDownload ==
    /\ pc = "dl_loop"
    /\ FnIdle
    /\ FtIdle
    /\ CrIdle
    /\ limit \in {1, MaxCandidates}
    /\ dry_run \in BOOLEAN
    /\ robots_cache = {}
    /\ env = NoEnv
    /\ trace = <<>>
    /\ cand_idx = 0
    /\ result = NoRet
    /\ DlLocalsIdle
    /\ disk = NoDir
    /\ records = <<>>
    /\ metadata = NoRet
    /\ before = NoRet
    /\ ResIdle
    /\ ZipIdle
    /\ ScIdle

\* A dry run that goes on to the downloads.
after_setup_downloads(dry) == "dl_pdf"

\* Line 60: "if not dry_run" guards every download of the article; a dry
\* run goes on at line 141.
after_setup(dry) == IF dry THEN "dl_record" ELSE "dl_pdf"

\* Lines 34-60: candidate `cand`, whose directory is `d`, is taken and its
\* locals are set up.
begin_article(cand, d) ==
    LET expected == Path("supplementary_materials",
                         cand.peer_review_resource.filename)
        present  == os_path_exists(d, expected)
    IN  /\ result' = cand
        /\ cand_idx' = cand_idx + 1
        /\ before' = [dir |-> d.dir, files |-> d.files,
                      records |-> Len(records)]
        /\ article_dir_exists' = d.dir
        /\ disk' = ensure_article_dirs(d)
        /\ pdf_status' = cand.pdf_status
        /\ code_status' = cand.code_status
        /\ review_status' =
               IF present THEN "present" ELSE cand.peer_review_status
        /\ peer_review_path' = IF present THEN expected ELSE NoPath
        /\ manual_required' =
               IF ~present /\ cand.peer_review_status = "manual_required"
               THEN <<"peer_review">> ELSE <<>>
        /\ code_zip_path' = NoPath
        /\ supp_paths' = <<>>
        /\ data_paths' = <<>>
        /\ res_idx' = 1
        /\ trace' = <<Event("exists", ArticleDirPath, d.dir),
                      Exists(d, expected)>>
        /\ pc' = after_setup(dry_run)

\* The loop left one record late.
limit_reached_after(count, max) == count > max

\* Line 31: "len(records) >= limit"
limit_reached(count, max) == count >= max

\* Lines 30-58: the next candidate is taken and its locals are set up.
BeginArticle ==
    /\ pc = "dl_loop"
    /\ ~limit_reached(Len(records), limit)
    /\ cand_idx < MaxCandidates
    /\ \E cand \in Candidates(cand_idx + 1) : \E d \in InitialDirs(cand) :
         begin_article(cand, d)
    /\ UNCHANGED <<robots_cache, env, resVars, ftVars, rbVars, fnVars, crVars, zipVars, scVars, limit, dry_run,
                   records, metadata>>

\* Lines 31-32: enough records.
LimitReached ==
    /\ pc = "dl_loop"
    /\ limit_reached(Len(records), limit)
    /\ pc' = "dl_returned"
    /\ trace' = <<>>
    /\ UNCHANGED <<robots_cache, env, resVars, ftVars, rbVars, fnVars, crVars, zipVars, dlVars, scVars>>

\* Line 30: no candidate is left.
CandidatesExhausted ==
    /\ pc = "dl_loop"
    /\ pc' = "dl_returned"
    /\ trace' = <<>>
    /\ UNCHANGED <<robots_cache, env, resVars, ftVars, rbVars, fnVars, crVars, zipVars, dlVars, scVars>>

\* What a step of one article leaves alone.
dlFixed == <<env, resVars, ftVars, rbVars, fnVars, crVars, zipVars, scVars, limit, dry_run, cand_idx, result,
             article_dir_exists, records, metadata, before>>

\* Lines 61-62: paper.pdf is there.
PdfPresent ==
    /\ pc = "dl_pdf"
    /\ os_path_exists(disk, PdfPath)
    /\ pdf_status' = "present"
    /\ trace' = <<Exists(disk, PdfPath)>>
    /\ pc' = "dl_code"
    /\ UNCHANGED <<dlFixed, robots_cache, disk, review_status, code_status,
                   peer_review_path, code_zip_path, manual_required,
                   supp_paths, data_paths, res_idx>>

\* Lines 63-69: screened downloadable, still allowed, and the download works.
PdfDownloaded ==
    /\ pc = "dl_pdf"
    /\ ~os_path_exists(disk, PdfPath)
    /\ pdf_status = "downloadable"
    /\ \E ok \in BOOLEAN :
         LET url == result.article.pdf_url
             a   == allowed(robots_cache, url, PolicyNetwork(url, ok, TRUE))
         IN  /\ a.answer
             /\ robots_cache' = a.cache
             /\ disk' = download_file(disk, PdfPath, "ok")
             /\ pdf_status' = "downloaded"
             /\ trace' = <<Exists(disk, PdfPath)>> \o a.trace \o <<GET(url, "ok")>>
    /\ pc' = "dl_code"
    /\ UNCHANGED <<dlFixed, review_status, code_status, peer_review_path,
                   code_zip_path, manual_required, supp_paths, data_paths,
                   res_idx>>

\* Lines 70-74: the download raises; the article is abandoned.
PdfDownloadFails ==
    /\ pc = "dl_pdf"
    /\ ~os_path_exists(disk, PdfPath)
    /\ pdf_status = "downloadable"
    /\ \E ok \in BOOLEAN, outcome \in DownloadOutcomes \ {"ok"} :
         LET url == result.article.pdf_url
             a   == allowed(robots_cache, url, PolicyNetwork(url, ok, TRUE))
         IN  /\ a.answer
             /\ robots_cache' = a.cache
             /\ disk' = rollback(article_dir_exists,
                                 download_file(disk, PdfPath, outcome))
             /\ trace' = <<Exists(disk, PdfPath)>> \o a.trace
                         \o <<GET(url, outcome)>>
    /\ pc' = "dl_abandoned"
    /\ UNCHANGED <<dlFixed, dlLocals>>

\* Lines 75-80: screened downloadable, but the policy now says no.
PdfDisallowed ==
    /\ pc = "dl_pdf"
    /\ ~os_path_exists(disk, PdfPath)
    /\ pdf_status = "downloadable"
    /\ \E ok, can \in BOOLEAN :
         LET url == result.article.pdf_url
             a   == allowed(robots_cache, url, PolicyNetwork(url, ok, can))
         IN  /\ ~a.answer
             /\ robots_cache' = a.cache
             /\ trace' = <<Exists(disk, PdfPath)>> \o a.trace
    /\ pdf_status' = "manual_required"
    /\ manual_required' = Append(manual_required, "pdf")
    /\ pc' = "dl_code"
    /\ UNCHANGED <<dlFixed, disk, review_status, code_status, peer_review_path,
                   code_zip_path, supp_paths, data_paths, res_idx>>

\* Lines 81-85: not screened downloadable.
PdfManual ==
    /\ pc = "dl_pdf"
    /\ ~os_path_exists(disk, PdfPath)
    /\ pdf_status # "downloadable"
    /\ manual_required' = Append(manual_required, "pdf")
    /\ trace' = <<Exists(disk, PdfPath)>>
    /\ pc' = "dl_code"
    /\ UNCHANGED <<dlFixed, robots_cache, disk, pdf_status, review_status,
                   code_status, peer_review_path, code_zip_path, supp_paths,
                   data_paths, res_idx>>

\* Lines 87-88: where the code archive goes.
zip_path_of(cand) == Path("code", repo_zip_name(cand.code_repo))

\* Lines 89-90: the archive is there.
CodePresent ==
    /\ pc = "dl_code"
    /\ os_path_exists(disk, zip_path_of(result))
    /\ code_zip_path' = zip_path_of(result)
    /\ code_status' = "present"
    /\ trace' = <<Exists(disk, zip_path_of(result))>>
    /\ pc' = "dl_resources"
    /\ UNCHANGED <<dlFixed, robots_cache, disk, pdf_status, review_status,
                   peer_review_path, manual_required, supp_paths, data_paths,
                   res_idx>>

\* Line 91: "code_status == 'downloadable' and result.code_zip_url"
code_downloadable(status, zip_url) == status = "downloadable" /\ zip_url # NoUrl

\* Lines 91-96: the archive is downloaded.
CodeDownloaded ==
    /\ pc = "dl_code"
    /\ ~os_path_exists(disk, zip_path_of(result))
    /\ code_downloadable(code_status, result.code_zip_url)
    /\ code_zip_path' = zip_path_of(result)
    /\ disk' = download_file(disk, zip_path_of(result), "ok")
    /\ code_status' = "downloaded"
    /\ trace' = <<Exists(disk, zip_path_of(result)), GET(result.code_zip_url, "ok")>>
    /\ pc' = "dl_resources"
    /\ UNCHANGED <<dlFixed, robots_cache, pdf_status, review_status,
                   peer_review_path, manual_required, supp_paths, data_paths,
                   res_idx>>

\* Lines 97-101: the download raises; the article is abandoned.
CodeDownloadFails ==
    /\ pc = "dl_code"
    /\ ~os_path_exists(disk, zip_path_of(result))
    /\ code_downloadable(code_status, result.code_zip_url)
    /\ \E outcome \in DownloadOutcomes \ {"ok"} :
         /\ disk' = rollback(article_dir_exists,
                             download_file(disk, zip_path_of(result), outcome))
         /\ trace' = <<Exists(disk, zip_path_of(result)),
                       GET(result.code_zip_url, outcome)>>
    /\ code_zip_path' = zip_path_of(result)
    /\ pc' = "dl_abandoned"
    /\ UNCHANGED <<dlFixed, robots_cache, pdf_status, review_status,
                   code_status, peer_review_path, manual_required, supp_paths,
                   data_paths, res_idx>>

\* Lines 102-107: no archive to download.
CodeManual ==
    /\ pc = "dl_code"
    /\ ~os_path_exists(disk, zip_path_of(result))
    /\ ~code_downloadable(code_status, result.code_zip_url)
    /\ code_zip_path' = zip_path_of(result)
    /\ code_status' = "manual_required"
    /\ manual_required' = Append(manual_required, "code")
    /\ trace' = <<Exists(disk, zip_path_of(result))>>
    /\ pc' = "dl_resources"
    /\ UNCHANGED <<dlFixed, robots_cache, disk, pdf_status, review_status,
                   peer_review_path, supp_paths, data_paths, res_idx>>

\* The resource the loop of line 109 is at.
resource == result.article.esm_resources[res_idx]

InResourceLoop ==
    pc = "dl_resources" /\ res_idx <= Len(result.article.esm_resources)

\* After one resource: the next one, or the check of line 141.
after_resource ==
    /\ res_idx' = res_idx + 1
    /\ pc' = IF res_idx + 1 > Len(result.article.esm_resources)
             THEN "dl_check" ELSE "dl_resources"

\* Lines 120, 132: the file that counts as the peer-review file.
is_peer_review_file(r) ==
    r.category = "peer_review" /\ r.filename = PeerReviewFileName

\* Lines 118-124 and 130-136: the file at `path` is noted for the record.
note_resource(r, path) ==
    /\ data_paths' = IF r.category = "data"
                     THEN Append(data_paths, path) ELSE data_paths
    /\ supp_paths' = IF r.category # "data"
                     THEN Append(supp_paths, path) ELSE supp_paths
    /\ peer_review_path' = IF r.category # "data" /\ is_peer_review_file(r)
                           THEN path ELSE peer_review_path

\* Lines 110-111: a peer-review link that is not to be downloaded.
ResourceSkipped ==
    /\ InResourceLoop
    /\ resource.category = "peer_review" /\ review_status # "downloadable"
    /\ trace' = <<>>
    /\ after_resource
    /\ UNCHANGED <<dlFixed, robots_cache, disk, pdf_status, review_status,
                   code_status, peer_review_path, code_zip_path,
                   manual_required, supp_paths, data_paths>>

\* Lines 112-114: the policy says no.
ResourceDisallowed ==
    /\ InResourceLoop
    /\ ~(resource.category = "peer_review" /\ review_status # "downloadable")
    /\ \E ok, can \in BOOLEAN :
         LET a == allowed(robots_cache, resource.url,
                          PolicyNetwork(resource.url, ok, can))
         IN  /\ ~a.answer
             /\ robots_cache' = a.cache
             /\ trace' = a.trace
    /\ manual_required' = Append(manual_required, resource.category)
    /\ after_resource
    /\ UNCHANGED <<dlFixed, disk, pdf_status, review_status, code_status,
                   peer_review_path, code_zip_path, supp_paths, data_paths>>

\* Lines 115-125: the file is there.
ResourcePresent ==
    /\ InResourceLoop
    /\ ~(resource.category = "peer_review" /\ review_status # "downloadable")
    /\ os_path_exists(disk, dest_path(resource))
    /\ \E ok \in BOOLEAN :
         LET a == allowed(robots_cache, resource.url,
                          PolicyNetwork(resource.url, ok, TRUE))
         IN  /\ a.answer
             /\ robots_cache' = a.cache
             /\ trace' = a.trace \o <<Exists(disk, dest_path(resource))>>
    /\ note_resource(resource, dest_path(resource))
    /\ after_resource
    /\ UNCHANGED <<dlFixed, disk, pdf_status, review_status, code_status,
                   code_zip_path, manual_required>>

\* Lines 126-136: the file is downloaded.
ResourceDownloaded ==
    /\ InResourceLoop
    /\ ~(resource.category = "peer_review" /\ review_status # "downloadable")
    /\ ~os_path_exists(disk, dest_path(resource))
    /\ \E ok \in BOOLEAN :
         LET a == allowed(robots_cache, resource.url,
                          PolicyNetwork(resource.url, ok, TRUE))
         IN  /\ a.answer
             /\ robots_cache' = a.cache
             /\ trace' = a.trace \o <<Exists(disk, dest_path(resource)),
                                      GET(resource.url, "ok")>>
    /\ disk' = download_file(disk, dest_path(resource), "ok")
    /\ note_resource(resource, dest_path(resource))
    /\ after_resource
    /\ UNCHANGED <<dlFixed, pdf_status, review_status, code_status,
                   code_zip_path, manual_required>>

\* Lines 137-139: the download raises; the loop goes on.
ResourceDownloadFails ==
    /\ InResourceLoop
    /\ ~(resource.category = "peer_review" /\ review_status # "downloadable")
    /\ ~os_path_exists(disk, dest_path(resource))
    /\ \E ok \in BOOLEAN, outcome \in DownloadOutcomes \ {"ok"} :
         LET a == allowed(robots_cache, resource.url,
                          PolicyNetwork(resource.url, ok, TRUE))
         IN  /\ a.answer
             /\ robots_cache' = a.cache
             /\ trace' = a.trace \o <<Exists(disk, dest_path(resource)),
                                      GET(resource.url, outcome)>>
             /\ disk' = download_file(disk, dest_path(resource), outcome)
    /\ after_resource
    /\ UNCHANGED <<dlFixed, pdf_status, review_status, code_status,
                   peer_review_path, code_zip_path, manual_required,
                   supp_paths, data_paths>>

\* Line 141: "not peer_review_path and review_status != 'manual_required'"
peer_review_missing(path, status) ==
    path = NoPath /\ status # "manual_required"

\* Lines 141-145: the article is abandoned as inconsistent.
MissingPeerReview ==
    /\ pc = "dl_check"
    /\ peer_review_missing(peer_review_path, review_status)
    /\ disk' = rollback(article_dir_exists, disk)
    /\ trace' = <<>>
    /\ pc' = "dl_abandoned"
    /\ UNCHANGED <<dlFixed, robots_cache, dlLocals>>

\* Lines 147-177: the record is built, written and appended.
WriteRecord ==
    /\ \/ pc = "dl_record"
       \/ pc = "dl_check" /\ ~peer_review_missing(peer_review_path, review_status)
    /\ metadata' = build_metadata_record(
            result.article, result.code_repo, pdf_status, review_status,
            code_status, manual_required, PdfPath, code_zip_path, supp_paths,
            data_paths, peer_review_path,
            result.peer_review_resource.filename, dry_run)
    /\ disk' = [disk EXCEPT !.files = @ \cup {MetadataPath}]
    /\ records' = Append(records, result.article.url)
    /\ trace' = <<>>
    /\ pc' = "dl_recorded"
    /\ UNCHANGED <<env, resVars, ftVars, rbVars, fnVars, crVars, zipVars, scVars, limit, dry_run, cand_idx, result,
                   before, robots_cache, dlLocals>>

\* Line 30: the loop moves on; the locals of the article are dead.
NextIteration ==
    /\ pc \in {"dl_abandoned", "dl_recorded"}
    /\ pc' = "dl_loop"
    /\ result' = NoRet
    /\ article_dir_exists' = FALSE
    /\ pdf_status' = ""
    /\ review_status' = ""
    /\ code_status' = ""
    /\ peer_review_path' = NoPath
    /\ code_zip_path' = NoPath
    /\ manual_required' = <<>>
    /\ supp_paths' = <<>>
    /\ data_paths' = <<>>
    /\ res_idx' = 0
    /\ disk' = NoDir
    /\ metadata' = NoRet
    /\ before' = NoRet
    /\ trace' = <<>>
    /\ UNCHANGED <<env, resVars, ftVars, rbVars, fnVars, crVars, zipVars, scVars, limit, dry_run, cand_idx, records,
                   robots_cache>>

\* Lines 60-177: the steps of one article.
ArticleStep ==
    \/ PdfPresent \/ PdfDownloaded \/ PdfDownloadFails \/ PdfDisallowed
    \/ PdfManual
    \/ CodePresent \/ CodeDownloaded \/ CodeDownloadFails \/ CodeManual
    \/ ResourceSkipped \/ ResourceDisallowed \/ ResourcePresent
    \/ ResourceDownloaded \/ ResourceDownloadFails
    \/ MissingPeerReview \/ WriteRecord

NextDownload ==
    \/ BeginArticle \/ LimitReached \/ CandidatesExhausted
    \/ ArticleStep \/ NextIteration

SpecDownload == InitDownload /\ [][NextDownload]_vars

-----------------------------------------------------------------------------
(* SpecScreen: screen_journal over the listing pages of one journal.  The    *)
(* entries of a page are drawn as the loop reaches them, and so is what     *)
(* each request answers.                                                    *)

MaxPages == 2
MaxEntries == 2

\* The numbers of candidates asked for, and the articles the listing shows.
Remainings == {1, 2}
ListedArticles == {1, 2}

\* The defaults of --start-year and --end-year.
start_year == 2023
end_year == 2026

\* The years of the entries: around both ends of the range.
Years == {start_year - 1, start_year, end_year, end_year + 1}

\* An entry of a listing page.
Entries ==
    {[url |-> ArticleUrl(n), year |-> y] : n \in ListedArticles, y \in Years}

\* journal.list_url_template.format(page=pages)
ListPages == <<"page-1", "page-2", "page-3", "page-4">>
list_url(page) == <<NatureOrigin, "listing", ListPages[page]>>

\* What extract_article_data can find on the page of an article.
ArticlePages(article_url) ==
    {ArticleData(article_url, repos, pdf, extract_esm_resources(anchors)) :
        repos \in {<<>>, <<Repo1>>},
        pdf \in {NoUrl, PdfUrlOf(article_url)},
        anchors \in {<<AnchorSourceData>>,
                     <<AnchorSourceData, AnchorPeerReview>>}}

\* The negative cache as a run finds it.
InitialUrlCaches == {<<>>, ArticleUrl(1) :> "missing_github_link"}

\* A lookup that finds nothing.
cache_get_miss(cache, article_url) == ""

\* url_cache.get(article_url), None read as "".
cache_get(cache, article_url) ==
    IF article_url \in DOMAIN cache THEN cache[article_url] ELSE ""

\* url_cache[article_url] = reason
cache_put(cache, article_url, reason) ==
    [u \in DOMAIN cache \cup {article_url} |->
        IF u = article_url THEN reason ELSE cache[u]]

\* What a probe of screening can be answered.
ScreenProbeNetworks(url) ==
    {Network([b \in {Origin(url)} |-> ok], [u \in {url} |-> can],
             [u \in {url} |-> reply]) :
        ok \in BOOLEAN, can \in BOOLEAN,
        reply \in {HeadFails, HeadGives(200, "application/pdf")}}

\* What the archive URLs of the repos can be answered: all alike.
ScreenZipNetworks(repos) ==
    LET urls == UNION {ZipUrlsOf(repos[k]) : k \in DOMAIN repos} IN
    {Network([b \in {CodeloadOrigin} |-> ok], [u \in urls |-> class # "deny"],
             [u \in urls |-> ZipReplyOf(class)]) :
        ok \in BOOLEAN, class \in ZipClasses}

\* Line 46: the entry is older than the range.
before_start_one_off(year, start) == year < start - 1
before_start(year, start) == year < start

\* Line 52: the entry is newer than the range.
after_end_never(year, end) == FALSE
after_end(year, end) == year > end

\* The while loop going on whatever max_pages is.
keep_scanning_any_page == Len(candidates) < remaining

\* Line 28: the condition of the while loop.
keep_scanning == Len(candidates) < remaining /\ pages < max_pages

\* The model follows the scan over MaxPages listing pages at most.
PageInModel == pages < MaxPages

\* The variables screen_journal does not touch.
scFixed == <<env, resVars, ftVars, rbVars, fnVars, crVars, zipVars, limit, dry_run, cand_idx, result,
             article_dir_exists, code_status, peer_review_path, code_zip_path,
             manual_required, supp_paths, data_paths, res_idx, disk, records,
             metadata, before, remaining, max_pages, existing_slugs>>

InitScreen ==
    /\ pc = "sj_while"
    /\ FnIdle
    /\ FtIdle
    /\ CrIdle
    /\ remaining \in Remainings
    /\ max_pages \in {1, MaxPages + 1}
    /\ pages = 0
    /\ page_len = 0
    /\ entry_idx = 0
    /\ entry = NoRet
    /\ stop_due_to_year = FALSE
    /\ article = NoRet
    /\ candidates = <<>>
    /\ url_cache \in InitialUrlCaches
    /\ existing_slugs \in {{}, {article_slug(ArticleUrl(2))}}
    /\ robots_cache = {}
    /\ env = NoEnv
    /\ trace = <<>>
    /\ ResIdle
    /\ ZipIdle
    /\ DlIdle

\* Line 28, 137-138: the loop ends and the candidates are returned.
WhileExit ==
    /\ pc = "sj_while"
    /\ ~keep_scanning
    /\ pc' = "sj_returned"
    /\ trace' = <<>>
    /\ UNCHANGED <<scFixed, robots_cache, pages, page_len, entry_idx, entry,
                   stop_due_to_year, article, candidates, url_cache,
                   pdf_status, review_status>>

\* Lines 29-33: the policy disallows the listing page.
ListingDisallowed ==
    /\ pc = "sj_while"
    /\ keep_scanning
    /\ PageInModel
    /\ pages' = pages + 1
    /\ \E ok, can \in BOOLEAN :
         LET url == list_url(pages + 1)
             a == allowed(robots_cache, url, PolicyNetwork(url, ok, can))
         IN  /\ ~a.answer
             /\ robots_cache' = a.cache
             /\ trace' = a.trace
    /\ pc' = "sj_returned"
    /\ UNCHANGED <<scFixed, page_len, entry_idx, entry, stop_due_to_year,
                   article, candidates, url_cache, pdf_status, review_status>>

\* What lines 29-42 do once the listing page is allowed: the page is fetched
\* and parsed into n entries, n = -1 for a fetch that raises.
listing_fetched(n) ==
    /\ pc = "sj_while"
    /\ keep_scanning
    /\ PageInModel
    /\ pages' = pages + 1
    /\ \E ok \in BOOLEAN :
         LET url == list_url(pages + 1)
             a == allowed(robots_cache, url, PolicyNetwork(url, ok, TRUE))
         IN  /\ a.answer
             /\ robots_cache' = a.cache
             /\ trace' = a.trace \o <<GET(url, IF n < 0 THEN "error" ELSE "ok")>>
    /\ UNCHANGED <<scFixed, entry, article, candidates, url_cache, pdf_status,
                   review_status>>

\* Lines 34-38: fetching the listing page raises.
ListingFetchFails ==
    /\ listing_fetched(-1)
    /\ pc' = "sj_returned"
    /\ UNCHANGED <<page_len, entry_idx, stop_due_to_year>>

\* Lines 40-42: the page has no entry.
ListingEmpty ==
    /\ listing_fetched(0)
    /\ pc' = "sj_returned"
    /\ UNCHANGED <<page_len, entry_idx, stop_due_to_year>>

\* Lines 40-45: the page has entries; the scan of the page starts.
ListingParsed ==
    \E n \in 1..MaxEntries :
        /\ listing_fetched(n)
        /\ page_len' = n
        /\ entry_idx' = 1
        /\ stop_due_to_year' = FALSE
        /\ pc' = "sj_entry"

\* The for loop of line 45 is at an entry.
AtEntry == pc = "sj_entry" /\ entry_idx <= page_len

\* "continue", or the end of the loop body: the next entry, or back to the
\* while loop after the last one.
next_entry ==
    /\ entry_idx' = entry_idx + 1
    /\ article' = NoRet
    /\ pdf_status' = ""
    /\ review_status' = ""
    /\ pc' = IF entry_idx + 1 > page_len THEN "sj_while" ELSE "sj_entry"

\* The entry passes lines 46-58.
evaluated(e) ==
    /\ ~before_start(e.year, start_year)
    /\ ~after_end(e.year, end_year)
    /\ Len(candidates) < remaining

\* Lines 46-51 and 134-138: an entry older than the range ends the scan.
EntryBeforeStart ==
    /\ AtEntry
    /\ \E e \in Entries :
         /\ before_start(e.year, start_year)
         /\ entry' = e
    /\ stop_due_to_year' = TRUE
    /\ pc' = "sj_returned"
    /\ trace' = <<>>
    /\ UNCHANGED <<scFixed, robots_cache, pages, page_len, entry_idx, article,
                   candidates, url_cache, pdf_status, review_status>>

\* Lines 52-56: an entry newer than the range is skipped.
EntryAfterEnd ==
    /\ AtEntry
    /\ \E e \in Entries :
         /\ ~before_start(e.year, start_year)
         /\ after_end(e.year, end_year)
         /\ entry' = e
    /\ trace' = <<>>
    /\ next_entry
    /\ UNCHANGED <<scFixed, robots_cache, pages, page_len, stop_due_to_year,
                   candidates, url_cache>>

\* Lines 57-58: enough candidates; the for loop is left.
EntryQuotaFull ==
    /\ AtEntry
    /\ \E e \in Entries :
         /\ ~before_start(e.year, start_year)
         /\ ~after_end(e.year, end_year)
         /\ entry' = e
    /\ Len(candidates) >= remaining
    /\ pc' = "sj_while"
    /\ trace' = <<>>
    /\ UNCHANGED <<scFixed, robots_cache, pages, page_len, entry_idx,
                   stop_due_to_year, article, candidates, url_cache,
                   pdf_status, review_status>>

\* Lines 59-62: the negative cache has a reason for the URL.
EntryCached ==
    /\ AtEntry
    /\ \E e \in Entries :
         /\ evaluated(e)
         /\ cache_get(url_cache, e.url) # ""
         /\ entry' = e
         /\ trace' = <<Event("cache_get", e.url, cache_get(url_cache, e.url))>>
    /\ next_entry
    /\ UNCHANGED <<scFixed, robots_cache, pages, page_len, stop_due_to_year,
                   candidates, url_cache>>

\* Lines 63-66: the policy disallows the article page.
EntryRobotsDisallowed ==
    /\ AtEntry
    /\ \E e \in Entries, ok, can \in BOOLEAN :
         LET a == allowed(robots_cache, e.url, PolicyNetwork(e.url, ok, can)) IN
         /\ evaluated(e)
         /\ cache_get(url_cache, e.url) = ""
         /\ ~a.answer
         /\ entry' = e
         /\ robots_cache' = a.cache
         /\ url_cache' = cache_put(url_cache, e.url, "robots_disallowed")
         /\ trace' = <<Event("cache_get", e.url, "")>> \o a.trace
                     \o <<Event("cache_put", e.url, "robots_disallowed")>>
    /\ next_entry
    /\ UNCHANGED <<scFixed, pages, page_len, stop_due_to_year, candidates>>

\* What lines 59-71 do for an entry that gets as far as line 68, and with
\* `fetch` as far as the request of line 71.
entry_allowed(e, ok, fetch) ==
    LET a == allowed(robots_cache, e.url, PolicyNetwork(e.url, ok, TRUE)) IN
    /\ evaluated(e)
    /\ cache_get(url_cache, e.url) = ""
    /\ a.answer
    /\ entry' = e
    /\ robots_cache' = a.cache
    /\ trace' = <<Event("cache_get", e.url, "")>> \o a.trace
                \o (IF fetch = "" THEN <<>> ELSE <<GET(e.url, fetch)>>)

\* Line 68: "article_slug in existing_slugs", never true.
is_existing_never(slug, slugs) == FALSE

\* Line 68: "article_slug in existing_slugs"
is_existing(slug, slugs) == slug \in slugs

\* Lines 67-69: the article is archived already.
EntryExisting ==
    /\ AtEntry
    /\ \E e \in Entries, ok \in BOOLEAN :
         /\ is_existing(article_slug(e.url), existing_slugs)
         /\ entry_allowed(e, ok, "")
    /\ next_entry
    /\ UNCHANGED <<scFixed, pages, page_len, stop_due_to_year, candidates,
                   url_cache>>

\* A handler that records the failure in the negative cache.
after_fetch_error_cached(cache, article_url) ==
    cache_put(cache, article_url, "fetch_failed")

\* Lines 72-74: the handler prints and continues; the negative cache is as
\* it was.
after_fetch_error(cache, article_url) == cache

\* Lines 70-74: fetching the article page raises.
EntryFetchFails ==
    /\ AtEntry
    /\ \E e \in Entries, ok \in BOOLEAN :
         /\ ~is_existing(article_slug(e.url), existing_slugs)
         /\ entry_allowed(e, ok, "error")
         /\ url_cache' = after_fetch_error(url_cache, e.url)
    /\ next_entry
    /\ UNCHANGED <<scFixed, pages, page_len, stop_due_to_year, candidates>>

\* Lines 70-76: the article page is fetched and its data extracted.
EntryFetched ==
    /\ AtEntry
    /\ \E e \in Entries, ok \in BOOLEAN :
         /\ ~is_existing(article_slug(e.url), existing_slugs)
         /\ entry_allowed(e, ok, "ok")
         /\ article' \in ArticlePages(e.url)
    /\ pc' = "sj_article"
    /\ UNCHANGED <<scFixed, pages, page_len, entry_idx, stop_due_to_year,
                   candidates, url_cache, pdf_status, review_status>>

\* The same with the PDF URL looked at first.
missing_item_pdf_first(a) ==
    IF a.pdf_url = NoUrl THEN "missing_pdf_link"
    ELSE IF a.github_repos = <<>> THEN "missing_github_link"
    ELSE IF first_peer_review(a.esm_resources) = NoRet
    THEN "missing_peer_review_file"
    ELSE ""

\* Lines 77-91: the first thing the article lacks, "" when it lacks nothing.
missing_item(a) ==
    IF a.github_repos = <<>> THEN "missing_github_link"
    ELSE IF a.pdf_url = NoUrl THEN "missing_pdf_link"
    ELSE IF first_peer_review(a.esm_resources) = NoRet
    THEN "missing_peer_review_file"
    ELSE ""

\* Lines 77-91: the article lacks a link; the reason goes to the cache.
ArticleIncomplete ==
    /\ pc = "sj_article"
    /\ missing_item(article) # ""
    /\ url_cache' = cache_put(url_cache, article.url, missing_item(article))
    /\ trace' = <<Event("cache_put", article.url, missing_item(article))>>
    /\ next_entry
    /\ UNCHANGED <<scFixed, robots_cache, pages, page_len, entry,
                   stop_due_to_year, candidates>>

\* A probe status other than downloadable ends the work on the article.
probe_skips_manual_too(status) == status # "downloadable"

\* Lines 94 and 105: the probe status that ends the work on the article.
probe_skips(status) == status = "unavailable"

\* Lines 93-96: the PDF probes unavailable.
PdfUnavailable ==
    /\ pc = "sj_article"
    /\ missing_item(article) = ""
    /\ \E w \in ScreenProbeNetworks(article.pdf_url) :
         LET r == screen_resource(robots_cache, article.pdf_url, w) IN
         /\ probe_skips(r.status)
         /\ robots_cache' = r.cache
         /\ trace' = r.trace
    /\ next_entry
    /\ UNCHANGED <<scFixed, pages, page_len, entry, stop_due_to_year,
                   candidates, url_cache>>

\* Lines 93-100: the PDF probes downloadable or manual_required.
PdfProbed ==
    /\ pc = "sj_article"
    /\ missing_item(article) = ""
    /\ \E w \in ScreenProbeNetworks(article.pdf_url) :
         LET r == screen_resource(robots_cache, article.pdf_url, w) IN
         /\ ~probe_skips(r.status)
         /\ pdf_status' = r.status
         /\ robots_cache' = r.cache
         /\ trace' = r.trace
    /\ pc' = "sj_review"
    /\ UNCHANGED <<scFixed, pages, page_len, entry_idx, entry,
                   stop_due_to_year, article, candidates, url_cache,
                   review_status>>

\* Lines 85-87: the peer-review resource of the article.
peer_review_resource == first_peer_review(article.esm_resources)

\* Lines 102-107: the peer-review file probes unavailable.
ReviewUnavailable ==
    /\ pc = "sj_review"
    /\ \E w \in ScreenProbeNetworks(peer_review_resource.url) :
         LET r == screen_resource(robots_cache, peer_review_resource.url, w) IN
         /\ probe_skips(r.status)
         /\ robots_cache' = r.cache
         /\ trace' = r.trace
    /\ next_entry
    /\ UNCHANGED <<scFixed, pages, page_len, entry, stop_due_to_year,
                   candidates, url_cache>>

\* Lines 102-111: it probes downloadable or manual_required.
ReviewProbed ==
    /\ pc = "sj_review"
    /\ \E w \in ScreenProbeNetworks(peer_review_resource.url) :
         LET r == screen_resource(robots_cache, peer_review_resource.url, w) IN
         /\ ~probe_skips(r.status)
         /\ review_status' = r.status
         /\ robots_cache' = r.cache
         /\ trace' = r.trace
    /\ pc' = "sj_code"
    /\ UNCHANGED <<scFixed, pages, page_len, entry_idx, entry,
                   stop_due_to_year, article, candidates, url_cache,
                   pdf_status>>

\* Lines 113-132: the code archive is resolved; without a repo the article
\* is skipped, otherwise the candidate is appended.
ResolveCode ==
    /\ pc = "sj_code"
    /\ \E w \in ScreenZipNetworks(article.github_repos) :
         LET r == find_working_zip_url(robots_cache, article.github_repos, w) IN
         /\ robots_cache' = r.cache
         /\ trace' = r.trace
         /\ candidates' =
               IF r.repo_url = NoUrl THEN candidates
               ELSE Append(candidates,
                           ScreeningResult(article, r, peer_review_resource,
                                           pdf_status, review_status))
    /\ next_entry
    /\ UNCHANGED <<scFixed, pages, page_len, entry, stop_due_to_year,
                   url_cache>>

NextScreen ==
    \/ WhileExit \/ ListingDisallowed \/ ListingFetchFails \/ ListingEmpty
    \/ ListingParsed
    \/ EntryBeforeStart \/ EntryAfterEnd \/ EntryQuotaFull \/ EntryCached
    \/ EntryRobotsDisallowed \/ EntryExisting \/ EntryFetchFails
    \/ EntryFetched
    \/ ArticleIncomplete \/ PdfUnavailable \/ PdfProbed
    \/ ReviewUnavailable \/ ReviewProbed \/ ResolveCode

SpecScreen == InitScreen /\ [][NextScreen]_vars

-----------------------------------------------------------------------------
(* SpecCrawl: crawl_journal for one journal: the articles already archived, *)
(* then screen_journal, then download_candidates on what it returned.       *)

\* The articles the category directory can hold a directory of.
CrawlSlugs == {article_slug(ArticleUrl(n)) : n \in ListedArticles}

\* An article directory as an earlier run can have left it: absent, not yet
\* archived (with whole files, or with the part of paper.pdf a failed
\* download wrote), or archived.
SourceDataPath ==
    Path("data", human_name_to_filename(AnchorSourceData.text, AnchorSourceData.ext))

CrawlDirs ==
    {NoDir, Dir(TRUE, {PdfPath, SourceDataPath}, {}),
     Dir(TRUE, {PdfPath, SourceDataPath}, {PdfPath}),
     Dir(TRUE, {MetadataPath}, {}), Dir(TRUE, {MetadataPath, PdfPath}, {})}

\* The category directory as a run can find it: the first article in any of
\* these states, the second one absent or archived.
CrawlStores ==
    {c \in [CrawlSlugs -> CrawlDirs] :
        c[article_slug(ArticleUrl(2))] \in {NoDir, Dir(TRUE, {MetadataPath}, {})}}

\* The position of a slug in the sorted order of the paths.
slug_rank(slug) == CHOOSE k \in DOMAIN ArticleSlugs : ArticleSlugs[k] = slug

\* sorted(dirs), for a set of slugs.
RECURSIVE sorted(_)
sorted(slugs) ==
    IF slugs = {} THEN <<>>
    ELSE LET first == CHOOSE a \in slugs :
                         \A b \in slugs : slug_rank(a) <= slug_rank(b)
         IN  <<first>> \o sorted(slugs \ {first})

\* A listing that asks for a paper.pdf next to the metadata.json.
list_existing_article_dirs_with_pdf(category) ==
    sorted({slug \in DOMAIN category :
               /\ category[slug].dir
               /\ MetadataPath \in category[slug].files
               /\ PdfPath \in category[slug].files})

\* list_existing_article_dirs(category_dir): the directories that hold a
\* metadata.json, sorted.
list_existing_article_dirs(category) ==
    sorted({slug \in DOMAIN category :
               category[slug].dir /\ MetadataPath \in category[slug].files})

\* load_metadata_for_dir: the record of an archived article.
load_metadata_for_dir(slug) == [article_dir |-> slug, loaded |-> TRUE]

\* The record download_candidates returns for an article.
acquired_record(article_url) ==
    [article_dir |-> article_slug(article_url), loaded |-> FALSE]

\* list[:n]
take(list, n) == SubSeq(list, 1, IF n < Len(list) THEN n ELSE Len(list))

\* Line 33: "len(collected) >= n_per_journal", with > for >=.
enough_collected_strict(count, n) == count > n

\* Line 33: "len(collected) >= n_per_journal"
enough_collected(count, n) == count >= n

\* A load that ignores the file.
load_url_cache_empty(file) == <<>>

\* The negative cache of the journal, read from and written to its file.
load_url_cache(file) == file
save_url_cache(cache) == cache

InitCrawl ==
    /\ pc = "cj_start"
    /\ FnIdle
    /\ FtIdle
    /\ n_per_journal \in Remainings
    /\ store \in CrawlStores
    /\ store_at_start = store
    /\ url_cache_file \in InitialUrlCaches
    /\ collected = <<>>
    /\ dry_run \in BOOLEAN
    /\ max_pages = 1
    /\ remaining = 0
    /\ pages = 0
    /\ page_len = 0
    /\ entry_idx = 0
    /\ entry = NoRet
    /\ stop_due_to_year = FALSE
    /\ article = NoRet
    /\ candidates = <<>>
    /\ url_cache = <<>>
    /\ existing_slugs = {}
    /\ robots_cache = {}
    /\ env = NoEnv
    /\ trace = <<>>
    /\ limit = 0
    /\ cand_idx = 0
    /\ result = NoRet
    /\ DlLocalsIdle
    /\ disk = NoDir
    /\ records = <<>>
    /\ metadata = NoRet
    /\ before = NoRet
    /\ ResIdle
    /\ ZipIdle

\* crawl.py lines 23-40: the archived articles are collected; with enough of
\* them the call returns, otherwise screening is set up.
CrawlStart ==
    /\ pc = "cj_start"
    /\ LET existing_dirs    == list_existing_article_dirs(store)
           existing_records == [k \in DOMAIN existing_dirs |->
                                   load_metadata_for_dir(existing_dirs[k])]
           found            == take(existing_records, n_per_journal)
       IN  /\ collected' = found
           /\ IF enough_collected(Len(found), n_per_journal)
              THEN /\ pc' = "cj_returned"
                   /\ UNCHANGED <<remaining, url_cache, existing_slugs>>
              ELSE /\ pc' = "sj_while"
                   /\ remaining' = n_per_journal - Len(found)
                   /\ url_cache' = load_url_cache(url_cache_file)
                   /\ existing_slugs' = Range(existing_dirs)
    /\ trace' = <<>>
    /\ UNCHANGED <<robots_cache, env, resVars, ftVars, rbVars, fnVars, zipVars, dlVars, n_per_journal,
                   store, store_at_start, url_cache_file, max_pages, pages,
                   page_len, entry_idx, entry, stop_due_to_year, article,
                   candidates>>

\* crawl.py lines 41-62: screen_journal has returned; the negative cache is
\* saved and download_candidates is called with limit = remaining.  The
\* locals of screen_journal are dead; `entry` stays, as the place in the
\* listing where the scan ended.
CrawlAcquire ==
    /\ pc = "sj_returned"
    /\ url_cache_file' = save_url_cache(url_cache)
    /\ limit' = remaining
    /\ pc' = "dl_loop"
    /\ trace' = <<>>
    /\ pages' = 0
    /\ page_len' = 0
    /\ entry_idx' = 0
    /\ entry' = entry
    /\ stop_due_to_year' = FALSE
    /\ url_cache' = <<>>
    /\ UNCHANGED <<robots_cache, env, resVars, ftVars, rbVars, fnVars, zipVars, n_per_journal, store,
                   store_at_start, collected, dry_run, cand_idx, result,
                   dlLocals, disk, records, metadata, before, remaining,
                   max_pages, article, candidates, existing_slugs>>


\* download_flow.py lines 30-58, on the candidates screening returned and
\* the directories of the category.
CrawlBeginArticle ==
    /\ pc = "dl_loop"
    /\ ~limit_reached(Len(records), limit)
    /\ cand_idx < Len(candidates)
    /\ LET cand == candidates[cand_idx + 1] IN
         begin_article(cand, store[article_slug(cand.article.url)])
    /\ UNCHANGED <<robots_cache, env, resVars, ftVars, rbVars, fnVars, crVars, zipVars, scVars, limit,
                   dry_run, records, metadata>>

\* download_flow.py line 30: the candidates are exhausted.
CrawlCandidatesExhausted ==
    /\ pc = "dl_loop"
    /\ cand_idx = Len(candidates)
    /\ pc' = "dl_returned"
    /\ trace' = <<>>
    /\ UNCHANGED <<robots_cache, env, resVars, ftVars, rbVars, fnVars, crVars, zipVars, dlVars, scVars>>

\* download_flow.py line 30: the loop moves on; what the article's steps did
\* to its directory is what the category directory holds.
CrawlNextIteration ==
    /\ pc \in {"dl_abandoned", "dl_recorded"}
    /\ store' = [store EXCEPT ![article_slug(result.article.url)] = disk]
    /\ pc' = "dl_loop"
    /\ result' = NoRet
    /\ article_dir_exists' = FALSE
    /\ pdf_status' = ""
    /\ review_status' = ""
    /\ code_status' = ""
    /\ peer_review_path' = NoPath
    /\ code_zip_path' = NoPath
    /\ manual_required' = <<>>
    /\ supp_paths' = <<>>
    /\ data_paths' = <<>>
    /\ res_idx' = 0
    /\ disk' = NoDir
    /\ metadata' = NoRet
    /\ before' = NoRet
    /\ trace' = <<>>
    /\ UNCHANGED <<env, resVars, ftVars, rbVars, fnVars, zipVars, scVars, limit, dry_run, cand_idx,
                   records, robots_cache, n_per_journal, store_at_start,
                   url_cache_file, collected>>

\* crawl.py lines 53-64: the records are added to the archived ones.
CrawlReturn ==
    /\ pc = "dl_returned"
    /\ collected' = collected \o [k \in DOMAIN records |-> acquired_record(records[k])]
    /\ pc' = "cj_returned"
    /\ trace' = <<>>
    /\ UNCHANGED <<robots_cache, env, resVars, ftVars, rbVars, fnVars, zipVars, dlVars, scVars,
                   n_per_journal, store, store_at_start, url_cache_file>>

NextCrawl ==
    \/ CrawlStart \/ NextScreen \/ CrawlAcquire
    \/ CrawlBeginArticle \/ LimitReached \/ CrawlCandidatesExhausted
    \/ ArticleStep \/ CrawlNextIteration \/ CrawlReturn

SpecCrawl == InitCrawl /\ [][NextCrawl]_vars

-----------------------------------------------------------------------------
(* ThrottledFetcher, one step per request attempt *)

\* One fetcher object serves call after call.  Time is counted in ticks; a
\* clock reading is kept up to the delay, the only value it is compared with.
MaxRetries == 3
Delays     == {1, 2}
DestExts   == {".zip", ".html", ".HTM"}
FetchKinds == {"fetch_text", "download_file", "head_info"}
ResponseContentTypes == {"application/zip", "text/html", "Text/HTML; charset=UTF-8"}

upto_delay(t) == IF t > ft_delay THEN ft_delay ELSE t

\* _sleep_if_needed: the time it sleeps when `e` has elapsed since
\* _last_request.
sleep_if_needed(e) == IF e < ft_delay THEN ft_delay - e ELSE 0

\* os.path.splitext(dest_path)[1].lower() on the extensions of the model.
ext_lower(ext) ==
    CASE ext = ".HTM" -> ".htm"
      [] OTHER -> ext

rejects_html_as_sent(content_type, ext) ==
    contains_text_html(content_type) /\ ext_lower(ext) \notin {".html", ".htm"}

rejects_html(content_type, ext) ==
    contains_text_html(lower(content_type)) /\ ext_lower(ext) \notin {".html", ".htm"}

\* except (HTTPError, URLError): the errors an attempt is retried after.
retried(error) == error = "transport"

backoff_constant(delay, k) == delay

backoff(delay, k) == delay * (2 ^ k)

\* One outbound request: _sleep_if_needed, then urlopen taking d ticks;
\* _last_request is set when a response arrived.
send(e, s, d, ok) ==
    LET pause == sleep_if_needed(e)
    IN  [pause      |-> pause,
         gap        |-> upto_delay(s + pause),
         elapsed    |-> IF ok THEN 0 ELSE upto_delay(e + pause + d),
         since_sent |-> upto_delay(d)]

Raised(error) == [status |-> "raised", error |-> error]
Returned      == [status |-> "returned"]
Pause(why, t) == [why |-> why, t |-> t]

InitFetch ==
    /\ pc = "ft_idle"
    /\ FnIdle
    /\ robots_txt = <<>>
    /\ ft_delay \in Delays
    /\ ft_retries \in 0..MaxRetries
    /\ ft_call = NoRet
    /\ attempt = 0
    /\ elapsed = ft_delay
    /\ since_sent = ft_delay
    /\ gap = ft_delay
    /\ gets = 0
    /\ slept = <<>>
    /\ ft_response = NoRet
    /\ ft_disk = "absent"
    /\ ft_ret = NoRet
    /\ CrIdle
    /\ dry_run = FALSE
    /\ max_pages = 0
    /\ remaining = 0
    /\ pages = 0
    /\ page_len = 0
    /\ entry_idx = 0
    /\ entry = NoRet
    /\ stop_due_to_year = FALSE
    /\ article = NoRet
    /\ candidates = <<>>
    /\ url_cache = <<>>
    /\ existing_slugs = {}
    /\ robots_cache = {}
    /\ env = NoEnv
    /\ trace = <<>>
    /\ limit = 0
    /\ cand_idx = 0
    /\ result = NoRet
    /\ DlLocalsIdle
    /\ disk = NoDir
    /\ records = <<>>
    /\ metadata = NoRet
    /\ before = NoRet
    /\ ResIdle
    /\ ZipIdle

ftFixed == <<robots_cache, env, resVars, zipVars, dlVars, scVars, crVars,
             rbVars, fnVars, ft_delay, ft_retries>>

\* A caller starts fetch_text, download_file or head_info, some time after
\* the call before; download_file is called for a path that does not exist.
FetchCall ==
    /\ pc = "ft_idle"
    /\ \E kind \in FetchKinds, ext \in DestExts, idle \in 0..1 :
         /\ kind # "download_file" => ext = ".html"
         /\ ft_call' = [kind |-> kind, url |-> PdfUrl, ext |-> ext]
         /\ elapsed' = upto_delay(elapsed + idle)
         /\ since_sent' = upto_delay(since_sent + idle)
         /\ pc' = IF kind = "head_info" THEN "ft_head" ELSE "ft_for"
    /\ attempt' = 0
    /\ gets' = 0
    /\ slept' = <<>>
    /\ trace' = <<>>
    /\ ft_disk' = "absent"
    /\ ft_ret' = NoRet
    /\ ft_response' = NoRet
    /\ UNCHANGED <<gap, ftFixed>>

HeadInfo ==
    /\ pc = "ft_head"
    /\ \E ok \in BOOLEAN, d \in 0..1 :
         LET sent == send(elapsed, since_sent, d, ok)
         IN  /\ slept' = <<Pause("pacing", sent.pause)>>
             /\ trace' = <<HEAD(ft_call.url, IF ok THEN "ok" ELSE "failed")>>
             /\ gap' = sent.gap
             /\ elapsed' = sent.elapsed
             /\ since_sent' = sent.since_sent
    /\ ft_ret' = Returned
    /\ pc' = "ft_idle"
    /\ UNCHANGED <<ft_call, attempt, gets, ft_response, ft_disk, ftFixed>>

\* range(self.retries) is used up without a return or a raise.
ForExhausted ==
    /\ pc = "ft_for"
    /\ attempt >= ft_retries
    /\ ft_ret' = Raised("RuntimeError")
    /\ pc' = "ft_idle"
    /\ slept' = <<>>
    /\ trace' = <<>>
    /\ UNCHANGED <<ft_call, attempt, elapsed, since_sent, gap, gets,
                   ft_response, ft_disk, ftFixed>>

\* What the except clause makes of an error raised inside the attempt, with
\* the clocks at e and s when it is raised.
Failure(error, e, s, pauses) ==
    IF retried(error) /\ attempt + 1 # ft_retries
    THEN LET t == backoff(ft_delay, attempt)
         IN  /\ slept' = Append(pauses, Pause("backoff", t))
             /\ elapsed' = upto_delay(e + t)
             /\ since_sent' = upto_delay(s + t)
             /\ attempt' = attempt + 1
             /\ pc' = "ft_for"
             /\ ft_ret' = NoRet
    ELSE /\ slept' = pauses
         /\ elapsed' = e
         /\ since_sent' = s
         /\ attempt' = attempt
         /\ pc' = "ft_idle"
         /\ ft_ret' = Raised(error)

\* urlopen raises: HTTPError or URLError ("transport"), or something else.
AttemptFails ==
    /\ pc = "ft_for"
    /\ attempt < ft_retries
    /\ \E error \in {"transport", "other"}, d \in 0..1 :
         LET sent == send(elapsed, since_sent, d, FALSE)
         IN  /\ trace' = <<GET(ft_call.url, error)>>
             /\ gap' = sent.gap
             /\ Failure(error, sent.elapsed, sent.since_sent, <<Pause("pacing", sent.pause)>>)
    /\ gets' = gets + 1
    /\ UNCHANGED <<ft_call, ft_response, ft_disk, ftFixed>>

\* A response of an HTML content type for a destination that is no HTML
\* file: ValueError, before dest_path is opened.
AttemptRejected ==
    /\ pc = "ft_for"
    /\ attempt < ft_retries
    /\ ft_call.kind = "download_file"
    /\ \E content_type \in ResponseContentTypes, d \in 0..1 :
         LET sent == send(elapsed, since_sent, d, TRUE)
         IN  /\ rejects_html(content_type, ft_call.ext)
             /\ ft_response' = [content_type |-> content_type]
             /\ trace' = <<GET(ft_call.url, "ok")>>
             /\ gap' = sent.gap
             /\ Failure("ValueError", sent.elapsed, sent.since_sent, <<Pause("pacing", sent.pause)>>)
    /\ gets' = gets + 1
    /\ UNCHANGED <<ft_call, ft_disk, ftFixed>>

\* fetch_text: the body is read, or reading it raises.
AttemptReads ==
    /\ pc = "ft_for"
    /\ attempt < ft_retries
    /\ ft_call.kind = "fetch_text"
    /\ \E content_type \in ResponseContentTypes, d \in 0..1, read \in BOOLEAN :
         LET sent == send(elapsed, since_sent, d, TRUE)
         IN  /\ ft_response' = [content_type |-> content_type]
             /\ trace' = <<GET(ft_call.url, "ok")>>
             /\ gap' = sent.gap
             /\ IF read
                THEN /\ slept' = <<Pause("pacing", sent.pause)>>
                     /\ elapsed' = sent.elapsed
                     /\ since_sent' = sent.since_sent
                     /\ attempt' = attempt
                     /\ pc' = "ft_idle"
                     /\ ft_ret' = Returned
                ELSE Failure("other", sent.elapsed, sent.since_sent, <<Pause("pacing", sent.pause)>>)
    /\ gets' = gets + 1
    /\ UNCHANGED <<ft_call, ft_disk, ftFixed>>

\* download_file: an accepted response is written to dest_path, after a HEAD
\* for the length when the response does not carry one; reading may raise
\* with the file partly written.
AttemptDownloads ==
    /\ pc = "ft_for"
    /\ attempt < ft_retries
    /\ ft_call.kind = "download_file"
    /\ \E content_type \in ResponseContentTypes, d \in 0..1 :
       \E has_length \in BOOLEAN, head_ok \in BOOLEAN, read \in BOOLEAN :
         LET sent  == send(elapsed, since_sent, d, TRUE)
             probe == send(sent.elapsed, sent.since_sent, d, head_ok)
             e     == IF has_length THEN sent.elapsed ELSE probe.elapsed
             s     == IF has_length THEN sent.since_sent ELSE probe.since_sent
             pauses == IF has_length
                       THEN <<Pause("pacing", sent.pause)>>
                       ELSE <<Pause("pacing", sent.pause), Pause("pacing", probe.pause)>>
         IN  /\ ~rejects_html(content_type, ft_call.ext)
             /\ has_length => head_ok
             /\ ft_response' = [content_type |-> content_type]
             /\ trace' = IF has_length
                         THEN <<GET(ft_call.url, "ok")>>
                         ELSE <<GET(ft_call.url, "ok"),
                                HEAD(ft_call.url, IF head_ok THEN "ok" ELSE "failed")>>
             /\ gap' = IF has_length THEN sent.gap
                       ELSE IF sent.gap < probe.gap THEN sent.gap ELSE probe.gap
             /\ IF read
                THEN /\ slept' = pauses
                     /\ elapsed' = e
                     /\ since_sent' = s
                     /\ attempt' = attempt
                     /\ pc' = "ft_idle"
                     /\ ft_ret' = Returned
                     /\ ft_disk' = "complete"
                ELSE /\ Failure("other", e, s, pauses)
                     /\ ft_disk' = "partial"
    /\ gets' = gets + 1
    /\ UNCHANGED <<ft_call, ftFixed>>

NextFetch ==
    \/ FetchCall
    \/ HeadInfo
    \/ ForExhausted
    \/ AttemptFails
    \/ AttemptRejected
    \/ AttemptReads
    \/ AttemptDownloads

SpecFetch == InitFetch /\ [][NextFetch]_vars

-----------------------------------------------------------------------------
(* RobotsCache.allowed over what reading a robots.txt can come to *)

InsecureNatureOrigin == "http://www.nature.com"
RobotsOrigins == {NatureOrigin, InsecureNatureOrigin}
RobotsUrls    == {<<o, "articles", n>> : o \in RobotsOrigins, n \in {"a1", "a1.pdf"}}

\* RobotFileParser.read(): the document is read and holds rules ("rules") or
\* nothing that is a rule ("no_rules"), the server answers with an HTTP error
\* status, the connection fails, or the body is no UTF-8 text.
RobotsReads ==
    {"rules", "no_rules", "http_401", "http_403", "http_404", "http_500",
     "url_error", "decode_error"}

\* read() lets URLError and UnicodeDecodeError through and catches HTTPError.
read_raises(read) == read \in {"url_error", "decode_error"}

\* The parser object after read() returned.
robot_file_parser(read, disallowed) ==
    [disallow_all |-> read \in {"http_401", "http_403"},
     allow_all    |-> read = "http_404",
     last_checked |-> read \in {"rules", "no_rules"},
     disallowed   |-> IF read = "rules" THEN disallowed ELSE {}]

can_fetch(rp, url) ==
    IF rp.disallow_all THEN FALSE
    ELSE IF rp.allow_all THEN TRUE
    ELSE IF ~rp.last_checked THEN FALSE
    ELSE url \notin rp.disallowed

RobotsTxts ==
    {[read |-> read, disallowed |-> d] :
        read \in RobotsReads, d \in SUBSET {"a1", "a1.pdf"}}

\* The network as allowed() meets it.
NetworkOf(robots) ==
    Network([o \in RobotsOrigins |-> ~read_raises(robots[o].read)],
            [u \in RobotsUrls |->
                can_fetch(robot_file_parser(robots[u[1]].read,
                                            {<<u[1], "articles", n>> : n \in robots[u[1]].disallowed}),
                          u)],
            <<>>)

InitRobots ==
    /\ pc = "rb_idle"
    /\ FnIdle
    /\ robots_txt \in [RobotsOrigins -> RobotsTxts]
    /\ \A o \in RobotsOrigins : robots_txt[o].read # "rules" => robots_txt[o].disallowed = {}
    /\ env = NetworkOf(robots_txt)
    /\ robots_cache = {}
    /\ trace = <<>>
    /\ ft_delay = 0
    /\ ft_retries = 0
    /\ ft_call = NoRet
    /\ attempt = 0
    /\ elapsed = 0
    /\ since_sent = 0
    /\ gap = 0
    /\ gets = 0
    /\ slept = <<>>
    /\ ft_response = NoRet
    /\ ft_disk = "absent"
    /\ ft_ret = NoRet
    /\ CrIdle
    /\ dry_run = FALSE
    /\ max_pages = 0
    /\ remaining = 0
    /\ pages = 0
    /\ page_len = 0
    /\ entry_idx = 0
    /\ entry = NoRet
    /\ stop_due_to_year = FALSE
    /\ article = NoRet
    /\ candidates = <<>>
    /\ url_cache = <<>>
    /\ existing_slugs = {}
    /\ limit = 0
    /\ cand_idx = 0
    /\ result = NoRet
    /\ DlLocalsIdle
    /\ disk = NoDir
    /\ records = <<>>
    /\ metadata = NoRet
    /\ before = NoRet
    /\ ResIdle
    /\ ZipIdle

\* One call of allowed(url).
RobotsAllowed ==
    /\ pc = "rb_idle"
    /\ \E url \in RobotsUrls :
         LET r == allowed(robots_cache, url, env)
         IN  /\ robots_cache' = r.cache
             /\ trace' = r.trace
    /\ UNCHANGED <<pc, env, resVars, zipVars, dlVars, scVars, crVars, ftVars, rbVars, fnVars>>

NextRobots == RobotsAllowed

SpecRobots == InitRobots /\ [][NextRobots]_vars

-----------------------------------------------------------------------------
(* SpecEsm: one call of extract_esm_resources *)

\* What the calls of single functions leave alone, and its idle values.
fnFixed == <<robots_cache, env, trace, resVars, zipVars, dlVars, scVars,
             crVars, ftVars, rbVars>>

OthersIdle ==
    /\ robots_cache = {}
    /\ env = NoEnv
    /\ trace = <<>>
    /\ FtIdle
    /\ CrIdle
    /\ DlIdle
    /\ ScIdle
    /\ ResIdle
    /\ ZipIdle

MaxPageAnchors == 4

\* Further links of an article page: a second peer-review link, and files
\* whose link texts already end in "_2" and "_3".
AnchorSecondReview    == Anchor("MOESM4", ".pdf", "Peer Review File")
AnchorNamedLikeSecond == Anchor("MOESM5", ".pdf", "Peer_Review_File_2")
AnchorNamedLikeThird  == Anchor("MOESM6", ".pdf", "Peer_Review_File_3")
PageAnchors ==
    Anchors \cup {AnchorSecondReview, AnchorNamedLikeSecond, AnchorNamedLikeThird}

InitEsm ==
    /\ pc = "esm_page"
    /\ esm_page \in SeqsNoDup(PageAnchors, MaxPageAnchors)
    /\ esm_out = NoRet
    /\ GhIdle
    /\ SmIdle
    /\ OthersIdle

\* parser.py lines 176-216: the resources of the page, renamed.
ExtractEsm ==
    /\ pc = "esm_page"
    /\ esm_out' = extract_esm_resources(esm_page)
    /\ pc' = "esm_done"
    /\ UNCHANGED <<esm_page, ghVars, smVars, fnFixed>>

NextEsm == ExtractEsm

SpecEsm == InitEsm /\ [][NextEsm]_vars

-----------------------------------------------------------------------------
(* SpecNormalize: normalize_github_repo, applied once and once again *)

MaxNameLen == 4

\* The characters of the names of the model, and the names: the second path
\* segment of the URL, where the repository is named.
NameChars == {".", "g", "i", "t"}
Names     == UNION {[1..n -> NameChars] : n \in 0..MaxNameLen}
DotGit    == <<".", "g", "i", "t">>
Owner     == <<"o">>
Tree      == <<"t", "r", "e", "e">>

\* A URL as urlparse splits it; `segments` is path.split("/") without the
\* empty string before the leading "/", so "//" and a trailing "/" give an
\* empty segment.
GitUrl(scheme, netloc, segments, query) ==
    [scheme |-> scheme, netloc |-> netloc, segments |-> segments,
     query |-> query]

Netlocs == {"github.com", "WWW.GitHub.com", "gist.github.com"}

\* str.lower, on the hosts of the model.
str_lower(netloc) ==
    IF netloc = "WWW.GitHub.com" THEN "www.github.com" ELSE netloc

GitPaths ==
    {<<>>, <<Owner>>, <<Owner, <<>>>>}
        \cup {<<Owner, name>> : name \in Names}
        \cup {<<Owner, <<>>, name>> : name \in Names}
        \cup {<<Owner, name, Tree>> : name \in Names}

GitUrls ==
    {GitUrl(scheme, netloc, segments, query) :
        scheme \in {"http", "https"}, netloc \in Netlocs,
        segments \in GitPaths, query \in {"", "tab=readme"}}

\* str.replace(".git", ""): every occurrence found scanning from the left
\* is dropped, and the scan goes on behind it.
RECURSIVE str_replace_git(_)
str_replace_git(name) ==
    IF Len(name) < Len(DotGit) THEN name
    ELSE IF SubSeq(name, 1, Len(DotGit)) = DotGit
    THEN str_replace_git(SubSeq(name, Len(DotGit) + 1, Len(name)))
    ELSE <<Head(name)>> \o str_replace_git(Tail(name))

\* parser.py lines 139-147; None is NoRet.
normalize_github_repo(url) ==
    IF str_lower(url.netloc) \notin {"github.com", "www.github.com"}
    THEN NoRet
    ELSE LET parts == SelectSeq(url.segments, LAMBDA part : part # <<>>)
         IN  IF Len(parts) < 2
             THEN NoRet
             ELSE GitUrl("https", "github.com",
                         <<parts[1], str_replace_git(parts[2])>>, "")

InitNormalize ==
    /\ pc = "gh_given"
    /\ gh_url \in GitUrls
    /\ gh_repo = NoRet
    /\ gh_again = NoRet
    /\ EsIdle
    /\ SmIdle
    /\ OthersIdle

\* normalize_github_repo(url)
Normalize ==
    /\ pc = "gh_given"
    /\ gh_repo' = normalize_github_repo(gh_url)
    /\ pc' = "gh_once"
    /\ UNCHANGED <<gh_url, gh_again, esVars, smVars, fnFixed>>

\* normalize_github_repo of what the first call returned, when it accepted
\* the URL.
NormalizeAgain ==
    /\ pc = "gh_once"
    /\ gh_repo # NoRet
    /\ gh_again' = normalize_github_repo(gh_repo)
    /\ pc' = "gh_twice"
    /\ UNCHANGED <<gh_url, gh_repo, esVars, smVars, fnFixed>>

NextNormalize == Normalize \/ NormalizeAgain

SpecNormalize == InitNormalize /\ [][NextNormalize]_vars

-----------------------------------------------------------------------------
(* SpecSummary: main writes summary.csv *)

MaxRecords == 2

\* os.path.join(article_dir, relative_path), and the empty string.
Joined(article_dir, relative_path) == [dir |-> article_dir, rel |-> relative_path]
NoJoined == Joined("", NoPath)

SummaryZipPath == Path("code", repo_zip_name(Repo1))
ReviewPath     == Path("supplementary_materials", PeerReviewFileName)

\* The fields of a record that the summary reads.
SummaryRecord(n, pdf, peer_review_file, code_zip) ==
    [url |-> ArticleUrl(n),
     output |-> [article_dir |-> ArticleSlugs[n], pdf |-> pdf,
                 peer_review_file |-> peer_review_file,
                 code_zip |-> code_zip]]

\* The records main has merged, one per article directory, each with an
\* article directory (cli.py lines 36-41 and 58-62), as build_metadata_record
\* and load_metadata_for_dir leave their output paths.
SummaryRecords(n) ==
    {SummaryRecord(n, pdf, peer_review_file, code_zip) :
        pdf \in {NoPath, PdfPath},
        peer_review_file \in {NoPath, ReviewPath},
        code_zip \in {NoPath, SummaryZipPath}}

MergedRecords ==
    {<<>>}
        \cup {<<r>> : r \in SummaryRecords(1) \cup SummaryRecords(2)}
        \cup {<<r1, r2>> : r1 \in SummaryRecords(1), r2 \in SummaryRecords(2)}
        \cup {<<r2, r1>> : r1 \in SummaryRecords(1), r2 \in SummaryRecords(2)}

SummaryFiles ==
    {Joined(ArticleSlugs[n], path) :
        n \in 1..MaxRecords, path \in {PdfPath, ReviewPath, SummaryZipPath}}

\* storage.py lines 87-90
resolve_output_path(article_dir, relative_path, fallback) ==
    IF relative_path # NoPath
    THEN Joined(article_dir, relative_path)
    ELSE IF fallback # NoPath THEN Joined(article_dir, fallback) ELSE NoJoined

\* The three resolved paths of a record, lines 114-123.
pdf_path_of(record) ==
    resolve_output_path(record.output.article_dir, record.output.pdf, PdfPath)
review_path_of(record) ==
    resolve_output_path(record.output.article_dir,
                        record.output.peer_review_file, ReviewPath)
code_path_of(record) ==
    resolve_output_path(record.output.article_dir, record.output.code_zip, NoPath)

\* storage.py lines 93-131: one row per record that has an article
\* directory.
write_summary_csv(records_given) ==
    LET kept == SelectSeq(records_given,
                          LAMBDA record : record.output.article_dir # "")
    IN  [k \in DOMAIN kept |->
            [article_slug |-> kept[k].output.article_dir,
             url          |-> kept[k].url,
             pdf_path     |-> pdf_path_of(kept[k]),
             review_path  |-> review_path_of(kept[k]),
             code_path    |-> code_path_of(kept[k])]]

InitSummary ==
    /\ pc = "sm_merged"
    /\ merged_records \in MergedRecords
    /\ summary_files \in SUBSET SummaryFiles
    /\ summary_csv = NoRet
    /\ EsIdle
    /\ GhIdle
    /\ OthersIdle

\* cli.py line 65
WriteSummary ==
    /\ pc = "sm_merged"
    /\ summary_csv' = write_summary_csv(merged_records)
    /\ pc' = "sm_written"
    /\ UNCHANGED <<merged_records, summary_files, esVars, ghVars, fnFixed>>

NextSummary == WriteSummary

SpecSummary == InitSummary /\ [][NextSummary]_vars

-----------------------------------------------------------------------------
(* Claims about screen_resource and find_working_zip_url *)

\* The policy's answer for the URL about to be probed: the origin's policy is
\* cached or can be read, and it allows the URL.
PolicyAllowsProbe ==
    /\ Origin(res_url) \in robots_cache \/ env.robots_txt_ok[Origin(res_url)]
    /\ env.can_fetch[res_url]

\* The status a HEAD of the URL about to be probed gives, missing when the
\* request fails.
ProbeHeadStatus ==
    IF env.head_reply[res_url].ok THEN env.head_reply[res_url].status ELSE NoStatus

ProbeHeadIsHtml ==
    env.head_reply[res_url].content_type \in {"text/html", "Text/HTML; charset=UTF-8"}

\* C6: screen_resource decides in this order: a URL the policy disallows
\* yields manual_required and no HEAD request is issued for it; otherwise a
\* HEAD whose status is missing or >= 400 yields unavailable; otherwise an
\* HTML content type yields unavailable; otherwise downloadable.  A failing
\* HEAD does not raise: the call returns, with the status counted as missing.
C6_ScreenResourceOrder ==
    [][ pc = "res_call" =>
          /\ pc' = "res_returned"
          /\ IF ~PolicyAllowsProbe
             THEN /\ res_ret'.status = "manual_required"
                  /\ \A k \in DOMAIN trace' : trace'[k].op # "HEAD"
             ELSE /\ \E k \in DOMAIN trace' :
                        trace'[k].op = "HEAD" /\ trace'[k].url = res_url
                  /\ IF ProbeHeadStatus = NoStatus \/ ProbeHeadStatus >= 400
                     THEN res_ret'.status = "unavailable"
                     ELSE IF ProbeHeadIsHtml
                     THEN res_ret'.status = "unavailable"
                     ELSE res_ret'.status = "downloadable" ]_vars

\* C6 witness: a URL the policy disallows, whose HEAD would have answered
\* 200 with a PDF, came back manual_required without any HEAD request.
C6_Witness ==
    /\ pc = "res_returned"
    /\ ~env.can_fetch[res_url]
    /\ env.head_reply[res_url] = HeadGives(200, "application/pdf")
    /\ res_ret.status = "manual_required"
    /\ \A k \in DOMAIN trace : trace[k].op # "HEAD"

\* The status an archive URL probes, once the call has returned.
Probes(url) == screen_resource(robots_cache, url, env).status

ProbedUrls == [k \in DOMAIN zip_ret.probes |-> zip_ret.probes[k].url]

\* C3: if some archive URL of repo i probes manual_required, none of repo i
\* probes downloadable and no archive URL of an earlier repo probes
\* downloadable or manual_required, the result is (none, repo i,
\* manual_required) and no archive URL of a later repo is probed.
C3_FirstManualWins ==
    pc = "zip_returned" =>
        \A i \in DOMAIN repo_urls :
            ( /\ \E u \in ZipUrlsOf(repo_urls[i]) : Probes(u) = "manual_required"
              /\ \A u \in ZipUrlsOf(repo_urls[i]) : Probes(u) # "downloadable"
              /\ \A k \in 1..(i - 1) : \A u \in ZipUrlsOf(repo_urls[k]) :
                    Probes(u) = "unavailable" )
            => /\ zip_ret.zip_url = NoUrl
               /\ zip_ret.repo_url = repo_urls[i]
               /\ zip_ret.status = "manual_required"
               /\ \A k \in (i + 1)..Len(repo_urls) :
                     ZipUrlsOf(repo_urls[k]) \cap Range(ProbedUrls) = {}

\* C3 witness: the first repo is policy-blocked, the second one has a
\* downloadable archive, and the call returned the first as manual_required.
C3_Witness ==
    /\ pc = "zip_returned"
    /\ Len(repo_urls) = 2
    /\ \A u \in ZipUrlsOf(repo_urls[1]) : Probes(u) = "manual_required"
    /\ ZipUrlsOf(repo_urls[1]) # {}
    /\ \E u \in ZipUrlsOf(repo_urls[2]) : Probes(u) = "downloadable"
    /\ zip_ret.repo_url = repo_urls[1]
    /\ zip_ret.status = "manual_required"

\* The archive URLs of a list of repos, repo by repo.
RECURSIVE ZipUrlsInOrder(_)
ZipUrlsInOrder(repos) ==
    IF repos = <<>> THEN <<>>
    ELSE github_zip_urls(Head(repos)) \o ZipUrlsInOrder(Tail(repos))

\* C5: when every archive URL of every repo probes unavailable, all of them
\* are probed and the result is (none, first repo, manual_required); for an
\* empty list it is (none, none, manual_required).
C5_LastResort ==
    pc = "zip_returned" =>
        ( (\A i \in DOMAIN repo_urls : \A u \in ZipUrlsOf(repo_urls[i]) :
              Probes(u) = "unavailable")
          => /\ zip_ret.zip_url = NoUrl
             /\ zip_ret.status = "manual_required"
             /\ zip_ret.repo_url = IF repo_urls = <<>> THEN NoUrl ELSE repo_urls[1]
             /\ ProbedUrls = ZipUrlsInOrder(repo_urls) )

\* C5 witness: two repos with six unavailable archive URLs, all probed, and
\* the first repo returned.
C5_Witness ==
    /\ pc = "zip_returned"
    /\ Len(repo_urls) = 2
    /\ Len(zip_ret.probes) = 6
    /\ \A k \in DOMAIN zip_ret.probes : zip_ret.probes[k].status = "unavailable"
    /\ zip_ret.repo_url = repo_urls[1]

\* The archive URLs of a repo in the order the claim fixes.
CanonicalArchiveUrls(repo_url) ==
    IF Len(repo_url) < 3 THEN <<>>
    ELSE << <<"codeload.github.com", repo_url[2], repo_url[3], "zip/HEAD">>,
            <<"codeload.github.com", repo_url[2], repo_url[3], "zip/refs/heads/main">>,
            <<"codeload.github.com", repo_url[2], repo_url[3], "zip/refs/heads/master">> >>

RECURSIVE CanonicalOrder(_)
CanonicalOrder(repos) ==
    IF repos = <<>> THEN <<>>
    ELSE CanonicalArchiveUrls(Head(repos)) \o CanonicalOrder(Tail(repos))

\* The repo an archive URL belongs to.
RepoOfArchive(url) == <<"github.com", url[2], url[3]>>

\* C4: the archive URLs are probed repo by repo in the order of the list,
\* and within a repo in the order zip/HEAD, zip/refs/heads/main,
\* zip/refs/heads/master; the first probe that is downloadable ends the
\* call, which returns that URL, its repo and "downloadable" with no request
\* after that probe; and the repo returned is the code_repo of the candidate
\* and the used_github_repo of the record of the article.
C4_FirstDownloadableWins ==
    /\ pc # "zip_call" =>
         /\ Len(ProbedUrls) <= Len(CanonicalOrder(repo_urls))
         /\ \A k \in DOMAIN ProbedUrls :
               ProbedUrls[k] = CanonicalOrder(repo_urls)[k]
         /\ \A k \in DOMAIN zip_ret.probes :
               zip_ret.probes[k].status = "downloadable" =>
                  /\ k = Len(zip_ret.probes)
                  /\ zip_ret.zip_url = ProbedUrls[k]
                  /\ zip_ret.repo_url = RepoOfArchive(ProbedUrls[k])
                  /\ zip_ret.repo_url \in Range(repo_urls)
                  /\ zip_ret.status = "downloadable"
         /\ zip_ret.status = "downloadable" =>
               /\ zip_ret.probes # <<>>
               /\ zip_ret.probes[Len(zip_ret.probes)].status = "downloadable"
    /\ pc = "zip_returned" /\ zip_ret.status = "downloadable" =>
         trace[Len(trace)] = HEAD(zip_ret.zip_url, "ok")
    /\ pc = "zip_kept" => zip_record.candidate.code_repo = zip_ret.repo_url
    /\ pc = "zip_recorded" =>
         /\ zip_record.candidate.code_repo = zip_ret.repo_url
         /\ zip_record.record.used_github_repo = zip_ret.repo_url

\* The master archive of the second repo is the first to be downloadable:
\* six probes, and the second repo is the one recorded.
C4_Witness ==
    /\ pc = "zip_recorded"
    /\ repo_urls = <<Repo1, Repo2>>
    /\ Len(zip_ret.probes) = 6
    /\ zip_ret.status = "downloadable"
    /\ zip_ret.repo_url = Repo2
    /\ zip_record.record.used_github_repo = Repo2

-----------------------------------------------------------------------------
(* Claims about download_candidates *)

\* The steps that handle one destination path of the article.
AtResourceStep == pc \in {"dl_pdf", "dl_code"} \/ InResourceLoop

\* The destination path and the URL the step at hand is about.
StepPath ==
    IF pc = "dl_pdf" THEN PdfPath
    ELSE IF pc = "dl_code" THEN zip_path_of(result)
    ELSE dest_path(resource)

StepUrl ==
    IF pc = "dl_pdf" THEN result.article.pdf_url
    ELSE IF pc = "dl_code" THEN result.code_zip_url
    ELSE resource.url

\* The designated peer-review path of the article being processed.
DesignatedPath ==
    Path("supplementary_materials", result.peer_review_resource.filename)

\* The positions of the step's trace where the disk is asked for the path,
\* and those where the resource itself is requested.
ChecksOfStep == {k \in DOMAIN trace' : trace'[k].op = "exists"}
DownloadsOfStep ==
    {k \in DOMAIN trace' : trace'[k].op = "GET" /\ trace'[k].url = StepUrl}

\* C7 as the claim states it: in every step that handles a destination path
\* of a non-dry-run acquisition, each network call of the step comes after an
\* existence check of the path.
C7_ExistenceBeforeAnyNetworkCall ==
    [][ AtResourceStep =>
          \A k \in DOMAIN trace' :
             trace'[k].op = "GET" => \E j \in ChecksOfStep : j < k ]_vars

\* C7, amended: the existence of a destination path is checked before any
\* request for the resource itself, and a file that is present is never
\* downloaded nor touched.  For paper.pdf and the code zip the check is the
\* first thing the step does; for the resources of the page only the policy
\* query for the resource (which may read the origin's robots.txt) comes
\* before it, and a resource the policy disallows gets no check at all.  A
\* paper.pdf, code zip or designated peer-review file that is present gives
\* the status "present", in the locals and in the record written.
C7_ExistenceBeforeRequest ==
    [][ /\ AtResourceStep =>
             /\ \A k \in DownloadsOfStep :
                   \E j \in ChecksOfStep : j < k /\ trace'[j].url = StepPath
             /\ StepPath \in disk.files =>
                   DownloadsOfStep = {} /\ disk' = disk
             /\ pc \in {"dl_pdf", "dl_code"} => trace'[1].op = "exists"
             /\ InResourceLoop =>
                   \A j \in ChecksOfStep : \A k \in 1..(j - 1) :
                      \/ trace'[k] = Event("policy", resource.url, TRUE)
                      \/ trace'[k] = GET(RobotsTxt(Origin(resource.url)), "ok")
             /\ pc = "dl_pdf" /\ PdfPath \in disk.files =>
                   pdf_status' = "present"
             /\ pc = "dl_code" /\ zip_path_of(result) \in disk.files =>
                   code_status' = "present"
        /\ pc = "dl_loop" /\ pc' \in {"dl_pdf", "dl_record"} =>
             /\ \A k \in DOMAIN trace' : trace'[k].op = "exists"
             /\ Path("supplementary_materials",
                     result'.peer_review_resource.filename) \in before'.files
                    => review_status' = "present"
        /\ pc = "dl_check" /\ pc' = "dl_recorded" =>
             /\ PdfPath \in before.files => metadata'.status.pdf = "present"
             /\ zip_path_of(result) \in before.files =>
                    metadata'.status.code = "present"
             /\ DesignatedPath \in before.files =>
                    metadata'.status.peer_review = "present"
      ]_vars

\* A supplementary file that is present: the origin's robots.txt was read
\* before the disk was asked, and nothing was downloaded.
C7_Witness ==
    /\ pc \in {"dl_resources", "dl_check"}
    /\ Len(trace) = 3
    /\ trace[1].op = "GET"
    /\ trace[2].op = "policy"
    /\ trace[3].op = "exists" /\ trace[3].r = TRUE
    /\ supp_paths # <<>>
    /\ supp_paths[Len(supp_paths)] = trace[3].url

\* The PDF or the code-archive download of the step raises.
PdfOrCodeDownloadRaises ==
    /\ pc \in {"dl_pdf", "dl_code"}
    /\ \E k \in DownloadsOfStep : trace'[k].r # "ok"

\* The processing of an article is under way.
ArticleBegun == before # NoRet

C9_PreExistingDirKept ==
    ArticleBegun =>
        /\ before.dir => disk.dir /\ before.files \subseteq disk.files
        /\ ~disk.dir => ~before.dir /\ pc = "dl_abandoned"

\* An article whose directory existed is abandoned for its missing
\* peer-review file after its paper.pdf was downloaded: nothing is removed.
C9_Witness ==
    /\ pc = "dl_abandoned"
    /\ before.dir
    /\ peer_review_missing(peer_review_path, review_status)
    /\ pdf_status = "downloaded"
    /\ disk.dir
    /\ PdfPath \in disk.files \ before.files

\* A complete file is at the designated peer-review path.
DesignatedFileOnDisk == DesignatedPath \in disk.files \ disk.partial

\* C10: once the resources of an article were processed, the article is
\* abandoned as inconsistent exactly when no file is on disk at its
\* designated peer-review path and the peer-review status is not
\* manual_required.
C10_AbandonedIffNoPeerReviewFile ==
    [][ pc = "dl_check" =>
          ((pc' = "dl_abandoned")
             <=> (~DesignatedFileOnDisk /\ review_status # "manual_required"))
      ]_vars

-----------------------------------------------------------------------------
(* Claims about screen_journal *)

\* The step leaves the candidates, both caches and the page count alone and
\* does nothing: no cache lookup or write, no policy query, no request.
NothingDoneForEntry ==
    /\ trace' = <<>>
    /\ UNCHANGED <<candidates, url_cache, robots_cache, pages>>

\* C1: when the scan of a listing page reaches an entry whose year is less
\* than start_year, screening of the journal ends there: nothing is looked
\* up, written, queried, fetched or probed for that entry, the call returns
\* with the candidates collected so far, and after that nothing happens: no
\* later entry and no later page is touched.
C1_OlderEntryStopsScreening ==
    [][ /\ AtEntry /\ entry'.year < start_year =>
             /\ NothingDoneForEntry
             /\ stop_due_to_year'
             /\ pc' = "sj_returned"
        /\ pc # "sj_returned"
      ]_vars

\* The scan stops at an older entry with a candidate collected, an entry
\* left on the page and a page left to request.
C1_Witness ==
    /\ pc = "sj_returned"
    /\ stop_due_to_year
    /\ entry.year = start_year - 1
    /\ entry_idx < page_len
    /\ pages < max_pages
    /\ Len(candidates) = 1
    /\ remaining = 2

\* C2: an entry whose year is greater than end_year is skipped alone:
\* nothing is looked up, written, queried, fetched or probed for it, and the
\* scan goes on with the next entry of the page, or with the while loop
\* after the last entry, without the stop flag.
C2_NewerEntrySkippedAlone ==
    [][ AtEntry /\ entry'.year > end_year =>
          /\ NothingDoneForEntry
          /\ ~stop_due_to_year'
          /\ entry_idx' = entry_idx + 1
          /\ pc' = IF entry_idx < page_len THEN "sj_entry" ELSE "sj_while"
      ]_vars

\* A newer entry, the first of a page of two, has just been skipped: nothing
\* was done for it, the stop flag is down and the scan is at the second
\* entry of the same page.
C2_Witness ==
    /\ pc = "sj_entry"
    /\ entry # NoRet
    /\ entry.year = end_year + 1
    /\ entry_idx = 2
    /\ page_len = 2
    /\ ~stop_due_to_year
    /\ trace = <<>>
    /\ candidates = <<>>
    /\ pages = 1

-----------------------------------------------------------------------------
(* Claims about crawl_journal *)

\* The article directories that held a metadata.json when the run began.
ArchivedAtStart ==
    {slug \in DOMAIN store_at_start : MetadataPath \in store_at_start[slug].files}

\* C11: when the category directory holds at least n article directories
\* with a metadata.json at the start of crawl_journal, the call returns n of
\* the loaded records, each of a different archived article, and makes no
\* request at all: no policy fetch, no listing or article fetch, no probe, no
\* download; and nothing happens after the return.
C11_EnoughArchivedNoRequests ==
    [][ /\ pc = "cj_start" /\ Cardinality(ArchivedAtStart) >= n_per_journal =>
             /\ pc' = "cj_returned"
             /\ Len(collected') = n_per_journal
             /\ \A k \in DOMAIN collected' :
                   /\ collected'[k].loaded
                   /\ collected'[k].article_dir \in ArchivedAtStart
             /\ \A j, k \in DOMAIN collected' :
                   j # k => collected'[j].article_dir # collected'[k].article_dir
             /\ trace' = <<>>
             /\ robots_cache' = robots_cache
             /\ store' = store
        /\ pc # "cj_returned"
      ]_vars

\* C11 witness: two archived articles and n = 1: the call has returned one
\* loaded record and no policy was ever read.
C11_Witness ==
    /\ pc = "cj_returned"
    /\ n_per_journal = 1
    /\ Cardinality(ArchivedAtStart) = 2
    /\ Len(collected) = 1
    /\ collected[1].loaded
    /\ robots_cache = {}
    /\ pages = 0

\* The article URLs whose slug is `slug`.
UrlsOfSlug(slug) ==
    {ArticleUrl(n) : n \in {m \in ListedArticles : article_slug(ArticleUrl(m)) = slug}}

\* C12: an article directory that held a metadata.json when the run began is
\* left as it was for the whole run, whatever else it holds: the article is
\* never the one extracted, screened or acquired (so none of its resources is
\* probed or downloaded), it is no candidate, its page and its PDF are never
\* requested, and its directory, metadata.json included, is unchanged.
C12_ArchivedArticleUntouched ==
    [][ \A slug \in ArchivedAtStart :
          /\ store'[slug] = store_at_start[slug]
          /\ article' # NoRet => article_slug(article'.url) # slug
          /\ result' # NoRet => article_slug(result'.article.url) # slug
          /\ \A k \in DOMAIN candidates' :
                article_slug(candidates'[k].article.url) # slug
          /\ \A k \in DOMAIN trace' :
                trace'[k].op \in {"GET", "HEAD"} =>
                   \A u \in UrlsOfSlug(slug) :
                      trace'[k].url # u /\ trace'[k].url # PdfUrlOf(u)
      ]_vars

\* C12 witness: the scan has just passed an in-range entry of an archived
\* article, whose directory also holds a paper.pdf: the policy allowed its
\* URL, and the scan went on without a request for the page.
C12_Witness ==
    /\ pc = "sj_entry"
    /\ entry # NoRet
    /\ article_slug(entry.url) \in ArchivedAtStart
    /\ PdfPath \in store[article_slug(entry.url)].files
    /\ entry.year = start_year
    /\ trace # <<>>
    /\ trace[Len(trace)] = Event("policy", entry.url, TRUE)
    /\ article = NoRet

-----------------------------------------------------------------------------
(* Claims about ThrottledFetcher *)

\* C13: a download_file attempt whose response has an HTML content type
\* while the destination extension is neither .html nor .htm ends the call
\* with an error raised to the caller and no file at the destination path,
\* on the first attempt and on a retry alike.
C13_HtmlDownloadRaisesNoFile ==
    [][ /\ pc = "ft_for"
        /\ ft_call.kind = "download_file"
        /\ trace' = <<GET(ft_call.url, "ok")>>
        /\ is_html_content(ft_response'.content_type)
        /\ ext_lower(ft_call.ext) \notin {".html", ".htm"}
        => /\ pc' = "ft_idle"
           /\ ft_ret'.status = "raised"
           /\ ft_disk' = "absent" ]_vars

C13_Witness ==
    /\ pc = "ft_idle"
    /\ ft_call # NoRet
    /\ ft_call.kind = "download_file"
    /\ ft_call.ext = ".zip"
    /\ attempt = 1
    /\ gets = 2
    /\ ft_response # NoRet
    /\ ft_response.content_type = "Text/HTML; charset=UTF-8"
    /\ ft_ret = Raised("ValueError")
    /\ ft_disk = "absent"

\* C14: between any two consecutive outbound requests of the fetcher, GET or
\* HEAD, successful or failed, at least `delay` elapses.
C14_MinimumSpacing ==
    [][ /\ pc \in {"ft_head", "ft_for"}
        /\ trace' # <<>>
        => ~(gap' < ft_delay) ]_vars

\* C15: one fetch or download makes at most `retries` GET attempts; after a
\* transport failure of attempt k that is not the last one it waits
\* delay * 2^k and tries again, the failure of the last attempt is raised to
\* the caller, and an attempt that got a response ends the call.
C15_RetriesAndBackoff ==
    [][ pc = "ft_for" =>
          /\ gets' <= ft_retries
          /\ trace' # <<>> => gets' = gets + 1 /\ gets' = attempt + 1
          /\ trace' = <<>> => gets' = gets /\ ft_ret' = Raised("RuntimeError")
          /\ trace' = <<GET(ft_call.url, "transport")>> =>
               IF attempt + 1 < ft_retries
               THEN /\ pc' = "ft_for"
                    /\ attempt' = attempt + 1
                    /\ ft_ret' = NoRet
                    /\ slept'[Len(slept')] = Pause("backoff", ft_delay * (2 ^ attempt))
               ELSE /\ pc' = "ft_idle"
                    /\ ft_ret' = Raised("transport")
          /\ trace' # <<>> /\ trace'[1].r = "ok" => pc' = "ft_idle" ]_vars

C15_Witness ==
    /\ pc = "ft_for"
    /\ ft_call.kind = "fetch_text"
    /\ ft_delay = 2
    /\ ft_retries = 3
    /\ attempt = 2
    /\ gets = 2
    /\ trace = <<GET(ft_call.url, "transport")>>
    /\ slept = <<Pause("pacing", 0), Pause("backoff", 4)>>

-----------------------------------------------------------------------------
(* Claims about RobotsCache *)

\* The policy document of the origin was not delivered, or is no text.
Unreadable ==
    {"http_401", "http_403", "http_404", "http_500", "url_error", "decode_error"}

\* C16: allowed keeps one cache entry per scheme and host, reading the
\* robots.txt of an origin only while the origin is not cached, and answers
\* False for every URL of an origin whose policy document cannot be read.
C16_FailsClosed ==
    [][ pc = "rb_idle" /\ trace' # <<>> =>
          LET call == trace'[Len(trace')]
              base == call.url[1]
          IN  /\ call.op = "policy"
              /\ robots_cache' \subseteq robots_cache \cup {base}
              /\ (Len(trace') = 2) = (base \notin robots_cache)
              /\ robots_txt[base].read \in Unreadable => call.r = FALSE ]_vars

-----------------------------------------------------------------------------
(* Claims about the entries screen_journal evaluates *)

\* The scan is at an entry in the year range whose URL has a reason in the
\* negative cache.
AtCachedEntry ==
    /\ AtEntry
    /\ entry'.year >= start_year
    /\ entry'.year <= end_year
    /\ entry'.url \in DOMAIN url_cache
    /\ url_cache[entry'.url] # ""

\* No policy query, no fetch and no probe in the step; the candidates and
\* both caches as they were.
NoRequestNoChange ==
    /\ \A k \in DOMAIN trace' : trace'[k].op \notin {"policy", "GET", "HEAD"}
    /\ UNCHANGED <<candidates, url_cache, robots_cache, pages>>
    /\ article' = NoRet

\* C17 as stated: for an in-range entry whose URL has a recorded reason in
\* the negative cache, screen_journal issues no policy query, no fetch and no
\* probe, appends no candidate, leaves the cache unchanged and continues
\* with the next entry.
C17_CachedEntrySkipped ==
    [][ AtCachedEntry =>
          /\ NoRequestNoChange
          /\ entry_idx' = entry_idx + 1
          /\ pc' = IF entry_idx < page_len THEN "sj_entry" ELSE "sj_while"
      ]_vars

\* C17, amended: the same for a cached in-range entry reached while fewer
\* than `remaining` candidates are collected; with `remaining` candidates
\* collected the entry is not looked up and the scan of the page ends,
\* likewise without a request, a candidate or a cache change.
C17_CachedEntrySkippedBelowQuota ==
    [][ AtCachedEntry =>
          /\ NoRequestNoChange
          /\ IF Len(candidates) < remaining
             THEN /\ trace' = <<Event("cache_get", entry'.url, url_cache[entry'.url])>>
                  /\ entry_idx' = entry_idx + 1
                  /\ pc' = IF entry_idx < page_len THEN "sj_entry" ELSE "sj_while"
             ELSE /\ trace' = <<>>
                  /\ entry_idx' = entry_idx
                  /\ pc' = "sj_while"
      ]_vars

\* A cached entry, the first of a page of two, has just been skipped on the
\* lookup alone; the scan is at the second entry.
C17_Witness ==
    /\ pc = "sj_entry"
    /\ entry # NoRet
    /\ entry.year = start_year
    /\ entry.url \in DOMAIN url_cache
    /\ trace = <<Event("cache_get", entry.url, "missing_github_link")>>
    /\ entry_idx = 2
    /\ page_len = 2
    /\ candidates = <<>>
    /\ robots_cache = {NatureOrigin}

\* The extracted article has a GitHub repo link, a PDF URL and a peer-review
\* resource.
Complete(a) ==
    /\ a.github_repos # <<>>
    /\ a.pdf_url # NoUrl
    /\ \E k \in DOMAIN a.esm_resources : a.esm_resources[k].category = "peer_review"

FirstMissing(a) ==
    IF a.github_repos = <<>> THEN "missing_github_link"
    ELSE IF a.pdf_url = NoUrl THEN "missing_pdf_link"
    ELSE "missing_peer_review_file"

\* C18: for an extracted article that lacks a GitHub repo link, a PDF URL or
\* a peer-review resource, screen_journal appends no candidate, issues no
\* probe, and records under the article URL the reason of the first missing
\* item in the order github link, pdf link, peer-review file; the other
\* cache entries stay and the scan goes on with the next entry.
C18_IncompleteArticleCached ==
    [][ pc = "sj_article" /\ ~Complete(article) =>
          /\ candidates' = candidates
          /\ robots_cache' = robots_cache
          /\ \A k \in DOMAIN trace' : trace'[k].op \notin {"policy", "GET", "HEAD"}
          /\ DOMAIN url_cache' = DOMAIN url_cache \cup {article.url}
          /\ url_cache'[article.url] = FirstMissing(article)
          /\ \A u \in DOMAIN url_cache : u # article.url => url_cache'[u] = url_cache[u]
          /\ entry_idx' = entry_idx + 1
          /\ pc' = IF entry_idx < page_len THEN "sj_entry" ELSE "sj_while"
      ]_vars

\* An article with a repo link and without a PDF URL has just been recorded
\* as missing_pdf_link, next to the entry the cache held before.
C18_Witness ==
    /\ pc = "sj_while"
    /\ entry # NoRet
    /\ entry.url = ArticleUrl(2)
    /\ trace = <<Event("cache_put", entry.url, "missing_pdf_link")>>
    /\ url_cache = (ArticleUrl(1) :> "missing_github_link" @@ ArticleUrl(2) :> "missing_pdf_link")
    /\ candidates = <<>>

\* The step holds a policy answer False.
PolicyRefused ==
    \E k \in DOMAIN trace' : trace'[k].op = "policy" /\ ~trace'[k].r

\* The step holds a HEAD request that failed.
HeadFailed ==
    \E k \in DOMAIN trace' : trace'[k].op = "HEAD" /\ trace'[k].r = "error"

\* The work on the article ends with the step.
Skipped == pc' \in {"sj_entry", "sj_while"}

\* C19: the PDF probe and the peer-review probe of a complete article: a
\* probe that does not let screening proceed leaves the candidates and the
\* negative cache as they were; screening proceeds exactly with a status other
\* than unavailable, so with manual_required too, which a refusing policy
\* yields without a HEAD request; a failed HEAD request makes the probe
\* unavailable and the article skipped.
C19_UnavailableSkipsManualProceeds ==
    [][ \/ pc = "sj_article" /\ Complete(article)
        \/ pc = "sj_review"
        => /\ Skipped => UNCHANGED <<candidates, url_cache>>
           /\ PolicyRefused =>
                /\ ~Skipped
                /\ IF pc = "sj_article"
                   THEN pdf_status' = "manual_required"
                   ELSE review_status' = "manual_required"
           /\ HeadFailed => Skipped
           /\ ~Skipped =>
                /\ pc' = IF pc = "sj_article" THEN "sj_review" ELSE "sj_code"
                /\ (IF pc = "sj_article" THEN pdf_status' ELSE review_status')
                      \in {"downloadable", "manual_required"}
      ]_vars

\* A first article became a candidate with its PDF manual_required; the PDF
\* probe of a second one failed and the article was skipped with nothing
\* written to the negative cache.
C19_Witness ==
    /\ Len(candidates) = 1
    /\ candidates[1].pdf_status = "manual_required"
    /\ pc \in {"sj_entry", "sj_while"}
    /\ entry # NoRet
    /\ entry.url # candidates[1].article.url
    /\ trace # <<>>
    /\ trace[Len(trace)].op = "HEAD"
    /\ trace[Len(trace)].r = "error"
    /\ trace[Len(trace)].url = PdfUrlOf(entry.url)
    /\ entry.url \notin DOMAIN url_cache

\* The candidates are at most `remaining`, the listing pages requested at
\* most max_pages.
WithinLimits == Len(candidates) <= remaining /\ pages <= max_pages

\* A listing page is requested from the while loop alone, with fewer than
\* `remaining` candidates and fewer than max_pages pages; a page after the
\* first only when the page before had entries and raised no year stop.  A
\* request the policy refuses or that fails, a page without entries and a
\* year stop end the call, and nothing follows the end of the call.
PageRequestedWhenDue ==
    /\ pages' # pages =>
         /\ pages' = pages + 1
         /\ pc = "sj_while"
         /\ Len(candidates) < remaining
         /\ pages < max_pages
         /\ pages >= 1 => page_len >= 1 /\ entry_idx > page_len /\ ~stop_due_to_year
         /\ trace'[1].url[1] = NatureOrigin
         /\ pc' # "sj_returned" =>
              /\ pc' = "sj_entry"
              /\ page_len' >= 1
              /\ trace'[Len(trace')] = GET(list_url(pages'), "ok")
              /\ Event("policy", list_url(pages'), TRUE) \in Range(SubSeq(trace', Len(trace') - 1, Len(trace') - 1))
    /\ stop_due_to_year' => pc' = "sj_returned"
    /\ pc # "sj_returned"

\* The measure of the work left: the listing pages that may still be
\* requested, then the entries of the page still to be scanned, then the
\* steps left for the entry at hand.
PagesLeft == max_pages - pages

EntriesLeft ==
    IF pc \in {"sj_entry", "sj_article", "sj_review", "sj_code"}
    THEN page_len - entry_idx + 1
    ELSE 0

StepsLeft ==
    CASE pc = "sj_entry"   -> 4
      [] pc = "sj_article" -> 3
      [] pc = "sj_review"  -> 2
      [] pc = "sj_code"    -> 1
      [] pc = "sj_while"   -> 1
      [] OTHER             -> 0

\* The measure is made of natural numbers and every step lowers it in the
\* lexicographic order: no run of screen_journal goes on for ever.
MeasureDecreases ==
    /\ PagesLeft >= 0 /\ EntriesLeft >= 0
    /\ PagesLeft' >= 0 /\ EntriesLeft' >= 0
    /\ \/ PagesLeft' < PagesLeft
       \/ PagesLeft' = PagesLeft /\ EntriesLeft' < EntriesLeft
       \/ PagesLeft' = PagesLeft /\ EntriesLeft' = EntriesLeft /\ StepsLeft' < StepsLeft

\* C20: in every state of screen_journal the candidates are at most
\* `remaining` and the listing pages requested at most max_pages; a further
\* listing page is requested only after a page that the policy allowed, that
\* was fetched, had an entry and raised no year stop, and with fewer than
\* `remaining` candidates; screening terminates, every step lowering a
\* well-founded measure.
C20_BoundedScreeningTerminates ==
    /\ []WithinLimits
    /\ [][PageRequestedWhenDue /\ MeasureDecreases]_vars

\* The call returned after two listing pages, the quota filled on the second.
C20_Witness ==
    /\ pc = "sj_returned"
    /\ pages = 2
    /\ max_pages = MaxPages + 1
    /\ remaining = 2
    /\ Len(candidates) = 2
    /\ page_len >= 1
    /\ ~stop_due_to_year

-----------------------------------------------------------------------------
(* Claims about the candidates and the records *)

\* r is the first resource of category peer_review in the list.
FirstOfPeerReview(r, esm_resources) ==
    \E i \in DOMAIN esm_resources :
        /\ esm_resources[i] = r
        /\ r.category = "peer_review"
        /\ \A j \in 1..(i - 1) : esm_resources[j].category # "peer_review"

\* C21: every ScreeningResult of screen_journal carries the first resource
\* of category peer_review of its article and a code_repo that is one of
\* the article's extracted repos, also when no archive URL was resolved.
C21_CandidatesCarryReviewAndRepo ==
    \A k \in DOMAIN candidates :
        /\ candidates[k].peer_review_resource # NoRet
        /\ FirstOfPeerReview(candidates[k].peer_review_resource,
                             candidates[k].article.esm_resources)
        /\ candidates[k].code_repo # NoUrl
        /\ candidates[k].code_repo \in Range(candidates[k].article.github_repos)

\* screen_journal returned a candidate for which no archive URL was
\* resolved.
C21_Witness ==
    /\ pc = "sj_returned"
    /\ Len(candidates) >= 1
    /\ candidates[1].code_zip_url = NoUrl
    /\ candidates[1].code_status = "manual_required"
    /\ candidates[1].code_repo = Repo1

\* The number of the article a record is of.
ArticleNo(article_url) == CHOOSE n \in 1..Len(ArticleSlugs) : ArticleUrl(n) = article_url

\* C22: download_candidates returns at most `limit` records; with `limit`
\* records produced no further candidate is processed: the call returns
\* with no directory created and no request issued; an abandoned candidate
\* adds no record; the records are in the order of the candidates.
C22_AtMostLimitRecords ==
    /\ [](Len(records) <= limit)
    /\ [](\A j, k \in DOMAIN records : j < k => ArticleNo(records[j]) < ArticleNo(records[k]))
    /\ [][ /\ pc = "dl_loop" /\ Len(records) >= limit =>
                /\ pc' = "dl_returned"
                /\ trace' = <<>>
                /\ UNCHANGED <<disk, records, cand_idx, robots_cache>>
           /\ pc' = "dl_abandoned" => records' = records
           /\ pc = "dl_abandoned" => records' = records
           /\ records' # records => records' = Append(records, result.article.url)
           /\ pc # "dl_returned" ]_vars

\* The limit of one record is reached by the second candidate, the first
\* having been abandoned.
C22_Witness ==
    /\ pc = "dl_returned"
    /\ limit = 1
    /\ records = <<ArticleUrl(2)>>
    /\ cand_idx = 2
    /\ ~dry_run

\* The step issues a request for a file.
Downloads == \E k \in DOMAIN trace' : trace'[k].op = "GET"

\* The step asked the policy about the URL and was allowed.
PolicyAllowed(url) ==
    \E k \in DOMAIN trace' :
        trace'[k].op = "policy" /\ trace'[k].url = url /\ trace'[k].r

ResourceRequested ==
    \E k \in DOMAIN trace' : trace'[k].op = "GET" /\ trace'[k].url = resource.url

\* The step holds a download of that file that failed.
DownloadFailed ==
    \E k \in DOMAIN trace' :
        trace'[k].op = "GET" /\ trace'[k].url = resource.url /\ trace'[k].r # "ok"

\* C24: a failed download in the loop over the supplementary and data
\* resources skips that resource alone: the article is not abandoned, the
\* directory is not rolled back, nothing is noted for the record and the
\* loop goes on; a resource the policy disallows is not downloaded and its
\* category is added to the manual list; the files noted for the record are
\* complete files, and after the loop the record is written unless the
\* peer-review file is missing.
C24_FailedResourceSkipped ==
    /\ [](pc \in {"dl_resources", "dl_check"} =>
            /\ \A k \in DOMAIN supp_paths : supp_paths[k] \in disk.files \ disk.partial
            /\ \A k \in DOMAIN data_paths : data_paths[k] \in disk.files \ disk.partial)
    /\ [][ /\ pc = "dl_resources" /\ DownloadFailed =>
                /\ pc' \in {"dl_resources", "dl_check"}
                /\ res_idx' = res_idx + 1
                /\ disk'.dir
                /\ disk.files \subseteq disk'.files
                /\ UNCHANGED <<supp_paths, data_paths, peer_review_path,
                               manual_required, records>>
           /\ pc = "dl_resources" /\ PolicyRefused =>
                /\ ~ResourceRequested
                /\ disk' = disk
                /\ manual_required' = Append(manual_required, resource.category)
                /\ UNCHANGED <<supp_paths, data_paths, peer_review_path>>
                /\ pc' \in {"dl_resources", "dl_check"}
                /\ res_idx' = res_idx + 1
           /\ pc = "dl_check" =>
                IF peer_review_path = NoPath /\ review_status # "manual_required"
                THEN pc' = "dl_abandoned"
                ELSE /\ pc' = "dl_recorded"
                     /\ records' = Append(records, result.article.url)
                     /\ MetadataPath \in disk'.files
                     /\ metadata'.output.supplementary_files =
                           [k \in DOMAIN supp_paths |->
                               Path("supplementary_materials", supp_paths[k].name)]
                     /\ metadata'.output.data_files =
                           [k \in DOMAIN data_paths |-> Path("data", data_paths[k].name)]
      ]_vars

\* A record was written for an article of which the download of a data file
\* had failed, leaving part of the file: the record lists no data file.
C24_Witness ==
    /\ pc = "dl_recorded"
    /\ ~dry_run
    /\ \E path \in disk.partial : path.dir = "data"
    /\ metadata.output.data_files = <<>>
    /\ MetadataPath \in disk.files
    /\ Len(records) = 1

\* The PDF, the code archive or the peer-review file ended manual_required.
SomeManual ==
    \/ pdf_status = "manual_required"
    \/ code_status = "manual_required"
    \/ review_status = "manual_required"

\* No download failed and the policy refused no resource: every resource
\* of the article that was to be downloaded is a complete file on disk.
AllResourcesThere ==
    /\ disk.partial = {}
    /\ \A k \in DOMAIN result.article.esm_resources :
         LET r == result.article.esm_resources[k] IN
         \/ r.category = "peer_review" /\ review_status # "downloadable"
         \/ dest_path(r) \in disk.files

\* C25: an article whose PDF, code archive or peer-review file ended
\* manual_required, with no download failure, is not abandoned: its record,
\* listing those kinds in manual_required, is built, written to
\* metadata.json and appended to the records.
C25_ManualArticleRecorded ==
    [][ pc = "dl_check" /\ SomeManual /\ AllResourcesThere =>
          /\ pc' = "dl_recorded"
          /\ records' = Append(records, result.article.url)
          /\ MetadataPath \in disk'.files
          /\ pdf_status = "manual_required" => "pdf" \in metadata'.manual_required
          /\ code_status = "manual_required" => "code" \in metadata'.manual_required
          /\ review_status = "manual_required" => "peer_review" \in metadata'.manual_required
      ]_vars

-----------------------------------------------------------------------------
(* Claims about one run of crawl_journal *)

\* An article page is requested in the step.
ArticleFetched(article_url) ==
    \E k \in DOMAIN trace' : trace'[k].op = "GET" /\ trace'[k].url = article_url

\* Every reason of the first mapping is in the second.
Keeps(older, newer) ==
    \A u \in DOMAIN older : u \in DOMAIN newer /\ newer[u] = older[u]

\* C27: in a run of crawl_journal that screens, the negative cache is
\* loaded from its file once, before screening, and only grows while
\* screen_journal runs; the file is written once, after screening, with all
\* of the cache, in no other step, and loses no reason; and no step of the
\* run fetches the page of an article URL that has a reason in the file, so
\* a reason one run records keeps every later run from fetching that page.
C27_NegativeCacheAcrossRuns ==
    [][ /\ pc = "cj_start" /\ pc' # "cj_returned" =>
              pc' = "sj_while" /\ url_cache' = url_cache_file
        /\ pc # "cj_start" /\ pc' \notin {"dl_loop", "cj_returned"} =>
              Keeps(url_cache, url_cache')
        /\ pc = "sj_returned" => pc' = "dl_loop" /\ url_cache_file' = url_cache
        /\ pc # "sj_returned" => url_cache_file' = url_cache_file
        /\ Keeps(url_cache_file, url_cache_file')
        /\ \A u \in DOMAIN url_cache_file : url_cache_file[u] # "" => ~ArticleFetched(u)
      ]_vars

C27_Witness ==
    /\ pc = "dl_loop"
    /\ ArticleUrl(1) \in DOMAIN url_cache_file
    /\ ArticleUrl(2) \in DOMAIN url_cache_file
    /\ url_cache_file[ArticleUrl(1)] = "missing_github_link"
    /\ url_cache_file[ArticleUrl(2)] = "missing_peer_review_file"

-----------------------------------------------------------------------------
(* Claims about a dry run *)

\* No request of any kind in the step: no download, no probe, no policy
\* query, no robots.txt read.
NoRequest ==
    \A k \in DOMAIN trace' : trace'[k].op \notin {"GET", "HEAD", "policy"}

\* C28: with dry_run set, no step of download_candidates issues a request,
\* so nothing is downloaded, and no article is abandoned: every candidate
\* taken yields a record, written to metadata.json, and no candidate is
\* taken once there are `limit` records.
C28_DryRunDownloadsNothing ==
    /\ [](dry_run /\ pc \in {"dl_loop", "dl_returned"} => Len(records) = cand_idx)
    /\ [](dry_run => Len(records) <= limit)
    /\ [][ dry_run =>
             /\ NoRequest
             /\ pc' # "dl_abandoned"
             /\ pc # "dl_loop" => disk'.files \subseteq disk.files \cup {MetadataPath}
             /\ pc = "dl_record" => /\ pc' = "dl_recorded"
                                    /\ records' = Append(records, result.article.url)
                                    /\ MetadataPath \in disk'.files
         ]_vars

C28_Witness ==
    /\ dry_run
    /\ pc = "dl_recorded"
    /\ limit = 2
    /\ records = <<ArticleUrl(1), ArticleUrl(2)>>
    /\ result.pdf_status = "downloadable"
    /\ result.code_status = "downloadable"
    /\ result.peer_review_status = "downloadable"
    /\ disk.files = {MetadataPath}

-----------------------------------------------------------------------------
(* Claims about extract_esm_resources *)

\* C30: whatever the links of the page, and whatever names they give at
\* first, names ending in "_2" and "_3" included, the filenames of the
\* resources extract_esm_resources returns are pairwise distinct.
C30_FilenamesDistinct ==
    pc = "esm_done" =>
        \A i, j \in DOMAIN esm_out :
            i # j => esm_out[i].filename # esm_out[j].filename

C30_Witness ==
    /\ pc = "esm_done"
    /\ esm_page = <<AnchorNamedLikeSecond, AnchorNamedLikeThird,
                    AnchorPeerReview, AnchorNamedLikeIt>>
    /\ esm_out[1].filename = FileName(<<"Peer_Review_File", 2>>, ".pdf")
    /\ esm_out[2].filename = FileName(<<"Peer_Review_File", 3>>, ".pdf")
    /\ esm_out[3].filename = FileName(<<"Peer_Review_File">>, ".pdf")
    /\ esm_out[4].filename = FileName(<<"Peer_Review_File", 4>>, ".pdf")

-----------------------------------------------------------------------------
(* Claims about normalize_github_repo *)

\* https://github.com/{owner}/{repo}: two non-empty path segments, no
\* query, and a repo that does not end in ".git".
HasRepoForm(url) ==
    /\ url.scheme = "https"
    /\ url.netloc = "github.com"
    /\ url.query = ""
    /\ Len(url.segments) = 2
    /\ url.segments[1] # <<>>
    /\ url.segments[2] # <<>>
    /\ LET repo == url.segments[2] IN
         ~(Len(repo) >= Len(DotGit)
           /\ SubSeq(repo, Len(repo) - Len(DotGit) + 1, Len(repo)) = DotGit)

\* C29: for every URL normalize_github_repo accepts, the result has the
\* form https://github.com/{owner}/{repo}, without a further path, a query
\* or a ".git" suffix, and normalizing the result returns the result.
C29_NormalizeIdempotent ==
    /\ pc \in {"gh_once", "gh_twice"} /\ gh_repo # NoRet => HasRepoForm(gh_repo)
    /\ pc = "gh_twice" => gh_again = gh_repo

-----------------------------------------------------------------------------
(* Claims about summary.csv *)

\* summary.csv has a row for the record.
HasRow(record) ==
    \E k \in DOMAIN summary_csv : summary_csv[k].url = record.url

\* The PDF, the peer-review file and the code archive of the record exist
\* at their resolved paths.
AllThreeExist(record) ==
    /\ pdf_path_of(record) \in summary_files
    /\ review_path_of(record) \in summary_files
    /\ code_path_of(record) \in summary_files

\* C26: once summary.csv is written, it has a row for a record only if the
\* record's PDF, peer-review file and code archive all exist on disk at
\* their resolved paths; a record with one of them missing has no row.
C26_RowsOnlyForCompleteArticles ==
    pc = "sm_written" =>
        \A k \in DOMAIN merged_records :
            HasRow(merged_records[k]) => AllThreeExist(merged_records[k])

-----------------------------------------------------------------------------
(* Claims about what screening and a whole run do *)

\* screen_journal is running.
Screening == pc \in {"sj_while", "sj_entry", "sj_article", "sj_review", "sj_code"}

\* The URLs screen_journal reads the body of: listing pages, article pages
\* and robots.txt.
PageUrls ==
    {list_url(p) : p \in DOMAIN ListPages}
        \cup {ArticleUrl(n) : n \in DOMAIN ArticleSlugs}
        \cup {RobotsTxt(o) : o \in {NatureOrigin, SpringerOrigin, CodeloadOrigin}}

\* C31: a step of screen_journal creates, changes and deletes no file or
\* directory, neither in the category directory nor the persisted negative
\* cache nor a record; it accesses no file; the only bodies it requests are
\* those of listing pages, article pages and robots.txt, so it downloads
\* nothing; and the negative cache and the permission cache only grow.
C31_ScreeningOnlyReads ==
    [][ Screening =>
          /\ UNCHANGED <<store, disk, url_cache_file, records, metadata, collected>>
          /\ \A k \in DOMAIN trace' :
                /\ trace'[k].op \in {"policy", "GET", "HEAD", "cache_get", "cache_put"}
                /\ trace'[k].op = "GET" => trace'[k].url \in PageUrls
          /\ Keeps(url_cache, url_cache')
          /\ robots_cache \subseteq robots_cache'
      ]_vars

C31_Witness ==
    /\ pc = "sj_returned"
    /\ Len(candidates) = 1
    /\ candidates[1].pdf_status = "downloadable"
    /\ candidates[1].code_status = "downloadable"
    /\ SpringerOrigin \in robots_cache
    /\ CodeloadOrigin \in robots_cache
    /\ DOMAIN url_cache # DOMAIN url_cache_file
    /\ store = store_at_start

\* The scan ended at line 58 on an entry in the year range that it did not
\* evaluate, of an article that is no candidate, is not archived and has no
\* reason in the negative cache: an article that may pass screening and be
\* acquired without a failure, and was not tried.
ArticleLeftUntried ==
    /\ entry # NoRet
    /\ entry.year >= start_year
    /\ entry.year <= end_year
    /\ Len(candidates) >= remaining
    /\ \A k \in DOMAIN candidates : candidates[k].article.url # entry.url
    /\ article_slug(entry.url) \notin existing_slugs
    /\ entry.url \notin DOMAIN url_cache_file

\* C32: crawl_journal never returns more than n records, and it returns n
\* of them whenever enough articles are there; in particular it returns n
\* records when the listing still had an in-range article left untried,
\* whatever became of the candidates during acquisition.
C32_ReturnsRequestedNumber ==
    pc = "cj_returned" =>
        /\ Len(collected) <= n_per_journal
        /\ ArticleLeftUntried => Len(collected) = n_per_journal

\* download_candidates is at an article whose record is not written yet.
Acquiring == pc \in {"dl_pdf", "dl_code", "dl_resources", "dl_check", "dl_record"}

\* The slugs whose directory held a metadata.json when the run began.
ArchivedAtStartOfRun ==
    {slug \in DOMAIN store_at_start : MetadataPath \in store_at_start[slug].files}

\* C33: metadata.json is written only by the last step of an article's
\* acquisition, after which nothing is requested for the article; until
\* then the directory of the article holds no metadata.json, so a run that
\* stops earlier leaves none; and a run counts as existing, and skips at
\* line 68, only articles whose directory held a metadata.json when it
\* began: any other article is screened and processed when the scan reaches
\* it.
C33_MetadataWrittenLast ==
    /\ [](Acquiring => MetadataPath \notin disk.files)
    /\ [](pc # "cj_start" => existing_slugs \subseteq ArchivedAtStartOfRun)
    /\ [](\A k \in DOMAIN collected :
             collected[k].loaded => collected[k].article_dir \in ArchivedAtStartOfRun)
    /\ [][ /\ Acquiring /\ MetadataPath \in disk'.files => pc' = "dl_recorded"
           /\ pc = "dl_recorded" => pc' = "dl_loop" /\ trace' = <<>>
       ]_vars

\* No two elements of the sequence are equal.
Distinct(q) == \A i, j \in DOMAIN q : i # j => q[i] # q[j]

\* C38: in a run of crawl_journal no article URL appears twice among the
\* candidates of screening, none twice among the records acquisition
\* produces, and no article directory twice among the records returned,
\* whatever the listing pages show.
C38_DistinctArticles ==
    /\ Distinct([k \in DOMAIN candidates |-> candidates[k].article.url])
    /\ Distinct(records)
    /\ Distinct([k \in DOMAIN collected |-> collected[k].article_dir])

-----------------------------------------------------------------------------
(* Claims about the last steps of screening an article *)

\* C34: an article that passed the PDF and the peer-review probe has a
\* non-empty list of repos, resolution returns one of them, and the article
\* is appended as a candidate with the statuses of its probes: with an
\* archive URL of that repo when its code status is downloadable, and with
\* no archive URL when it is manual_required.
C34_ProbedArticleBecomesCandidate ==
    [][ pc = "sj_code" =>
          /\ article.github_repos # <<>>
          /\ Len(candidates') = Len(candidates) + 1
          /\ SubSeq(candidates', 1, Len(candidates)) = candidates
          /\ LET c == candidates'[Len(candidates')] IN
               /\ c.article = article
               /\ c.pdf_status = pdf_status
               /\ c.peer_review_status = review_status
               /\ c.code_repo # NoUrl
               /\ c.code_repo \in Range(article.github_repos)
               /\ c.code_status \in {"downloadable", "manual_required"}
               /\ c.code_status = "downloadable" => c.code_zip_url \in ZipUrlsOf(c.code_repo)
               /\ c.code_status = "manual_required" => c.code_zip_url = NoUrl
      ]_vars

C34_Witness ==
    /\ pc = "sj_returned"
    /\ Len(candidates) = 2
    /\ candidates[1].code_status = "downloadable"
    /\ candidates[1].code_zip_url # NoUrl
    /\ candidates[2].code_status = "manual_required"
    /\ candidates[2].code_zip_url = NoUrl
    /\ candidates[2].code_repo = Repo1
    /\ CodeloadOrigin \in robots_cache

\* The request of the article page of the entry raises in the step.
ArticleFetchRaises ==
    /\ pc = "sj_entry"
    /\ \E k \in DOMAIN trace' :
         /\ trace'[k].op = "GET"
         /\ trace'[k].url = entry'.url
         /\ trace'[k].r = "error"

\* C35: when fetching the article page of an entry raises, the negative
\* cache and the candidates stay as they were, nothing is probed, and the
\* scan goes on with the next entry of the same listing page, or with the
\* while loop after the last one.
C35_FetchErrorSkipsEntry ==
    [][ ArticleFetchRaises =>
          /\ UNCHANGED <<url_cache, candidates, pages, page_len>>
          /\ \A k \in DOMAIN trace' : trace'[k].op # "HEAD"
          /\ entry_idx' = entry_idx + 1
          /\ pc' = IF entry_idx < page_len THEN "sj_entry" ELSE "sj_while"
      ]_vars

C35_Witness ==
    /\ pc = "sj_entry"
    /\ entry_idx = 2
    /\ page_len = 2
    /\ entry # NoRet
    /\ \E k \in DOMAIN trace :
         /\ trace[k].op = "GET"
         /\ trace[k].url = entry.url
         /\ trace[k].r = "error"
    /\ url_cache = <<>>
    /\ candidates = <<>>
    /\ article = NoRet

-----------------------------------------------------------------------------
(* Claims about the requests of a whole run *)

\* Event k of the step is a GET or HEAD request of a listing page, an
\* article page or a file, not the read of a robots.txt.
IsRequest(k) ==
    /\ trace'[k].op \in {"GET", "HEAD"}
    /\ trace'[k].url[Len(trace'[k].url)] # "robots.txt"

\* Earlier in the step the policy was asked about the URL of event k and
\* allowed it.
AllowedInStep(k) ==
    \E j \in 1..(k - 1) :
        /\ trace'[j].op = "policy"
        /\ trace'[j].url = trace'[k].url
        /\ trace'[j].r

\* Event k downloads the code archive of the candidate being acquired, a
\* candidate of this run's screening with code status downloadable.
ArchiveOfCandidate(k) ==
    /\ pc = "dl_code"
    /\ trace'[k].op = "GET"
    /\ result \in Range(candidates)
    /\ result.code_status = "downloadable"
    /\ trace'[k].url = result.code_zip_url

\* C36: in a run of crawl_journal every GET or HEAD request of a listing
\* page, an article page or a file comes after the policy was asked about
\* that URL and allowed it: in the same step for every request but the
\* download of a code archive, whose URL is that of a candidate with code
\* status downloadable; and screening appends such a candidate only in a
\* step in which the policy allowed that archive URL.
C36_RequestsArePermitted ==
    [][ /\ \A k \in DOMAIN trace' :
              IsRequest(k) => AllowedInStep(k) \/ ArchiveOfCandidate(k)
        /\ pc = "sj_code" /\ Len(candidates') > Len(candidates) =>
              LET c == candidates'[Len(candidates')] IN
              c.code_status = "downloadable" =>
                  \E j \in DOMAIN trace' :
                      /\ trace'[j].op = "policy"
                      /\ trace'[j].url = c.code_zip_url
                      /\ trace'[j].r
      ]_vars

C36_Witness ==
    /\ pc = "dl_resources"
    /\ ~dry_run
    /\ result.code_status = "downloadable"
    /\ code_status = "downloaded"
    /\ pdf_status = "downloaded"
    /\ \E k \in DOMAIN trace : trace[k].op = "GET" /\ trace[k].url = result.code_zip_url

\* The file at the path is the whole result of a download.
CompleteFile(path) == path \in disk.files \ disk.partial

\* C37: when a record is written by a run that is not a dry run, a PDF or a
\* code archive it reports as present or downloaded, and every
\* supplementary or data file it lists, is a complete file on disk: never
\* what a download that failed part-way left behind.
C37_RecordedFilesAreComplete ==
    pc = "dl_recorded" /\ ~dry_run =>
        /\ pdf_status \in {"present", "downloaded"} => CompleteFile(PdfPath)
        /\ code_status \in {"present", "downloaded"} => CompleteFile(code_zip_path)
        /\ \A k \in DOMAIN supp_paths : CompleteFile(supp_paths[k])
        /\ \A k \in DOMAIN data_paths : CompleteFile(data_paths[k])

\* What a record of a run that is not a dry run can say of the PDF and of
\* the code archive.
AcquiredStatuses == {"present", "downloaded", "manual_required"}

\* C39: in every record written by a run of crawl_journal that is not a dry
\* run, status.pdf and status.code are each present, downloaded or
\* manual_required, and the manual_required list names "pdf" (and "code")
\* exactly when that status is manual_required.
C39_StatusesMatchManualList ==
    pc = "dl_recorded" /\ ~dry_run =>
        /\ metadata.status.pdf \in AcquiredStatuses
        /\ metadata.status.code \in AcquiredStatuses
        /\ "pdf" \in metadata.manual_required
              <=> metadata.status.pdf = "manual_required"
        /\ "code" \in metadata.manual_required
              <=> metadata.status.code = "manual_required"

\* A record of an article whose PDF the policy kept from screening and
\* whose code archive was downloaded.
C39_Witness ==
    /\ pc = "dl_recorded"
    /\ ~dry_run
    /\ result.pdf_status = "manual_required"
    /\ result.code_status = "downloadable"
    /\ metadata.status.pdf = "manual_required"
    /\ metadata.status.code = "downloaded"
    /\ "pdf" \in metadata.manual_required
    /\ "code" \notin metadata.manual_required

\* An article directory as a dry run records it: the layout and the
\* metadata.json, no downloaded file.
RecordedByDryRun(d) == d.dir /\ d.files = {MetadataPath}

\* The articles a dry run had recorded when this run began.
DryRunArticles ==
    {slug \in DOMAIN store_at_start : RecordedByDryRun(store_at_start[slug])}

\* C40: when a dry run of crawl_journal returns, the directory of every
\* article it recorded holds a metadata.json and no file the run added
\* besides it, so the listing of the existing articles names it; and a run,
\* dry or not, that finds an article recorded that way lists it among the
\* existing articles, passes it as existing while it screens, never
\* extracts, screens or acquires it, returns no acquired record of it and
\* leaves its directory as it was.
C40_DryRunRecordCountsAsExisting ==
    /\ pc = "cj_returned" /\ dry_run =>
          \A k \in DOMAIN records :
             LET slug == article_slug(records[k]) IN
             /\ slug \in Range(list_existing_article_dirs(store))
             /\ store[slug].files \subseteq
                   store_at_start[slug].files \cup {MetadataPath}
    /\ \A slug \in DryRunArticles :
          /\ slug \in Range(list_existing_article_dirs(store))
          /\ store[slug] = store_at_start[slug]
          /\ pc \notin {"cj_start", "cj_returned"} => slug \in existing_slugs
          /\ article # NoRet => article_slug(article.url) # slug
          /\ result # NoRet => article_slug(result.article.url) # slug
          /\ \A k \in DOMAIN candidates :
                article_slug(candidates[k].article.url) # slug
          /\ \A k \in DOMAIN records : article_slug(records[k]) # slug
          /\ \A k \in DOMAIN collected :
                collected[k].article_dir = slug => collected[k].loaded

\* A run that is not a dry run found the second article as a dry run had
\* recorded it, counted it, and has acquired the first one.
C40_Witness ==
    /\ pc = "cj_returned"
    /\ ~dry_run
    /\ DryRunArticles = {article_slug(ArticleUrl(2))}
    /\ records = <<ArticleUrl(1)>>
    /\ Len(collected) = 2
    /\ collected[1] = load_metadata_for_dir(article_slug(ArticleUrl(2)))
    /\ collected[2] = acquired_record(ArticleUrl(1))

=============================================================================
